---- MODULE Spec2Model ----
(***************************************************************************)
(* A model of the notebooks of data-science-on-aws:                        *)
(*   - the environment setup notebook          (src/unnamed/part_001)      *)
(*   - the data-quality notebook (src/01c_Analyze_Data_Quality_...ipynb)   *)
(*   - the PEFT fine-tuning notebook  (src/unnamed/part_000, lines 1-1458) *)
(*   - the RLHF / PPO notebook     (src/unnamed/part_000, lines 1460-2854) *)
(* A notebook is run top to bottom in a fresh kernel ("Run All"): the code *)
(* cells execute in order and the run stops at the first cell that raises. *)
(* Strings that matter (S3 URIs, job names) are sequences of tokens.       *)
(***************************************************************************)
EXTENDS Integers, Sequences, FiniteSets, TLC

\* ------------------------------------------------------------------ bounds

\* The default buckets sess.default_bucket() may return (one per account/region).
BucketNames == {"sagemaker-us-east-1-111", "sagemaker-eu-west-1-222"}

\* The words of a reference summary.
RefLen == 2

\* The rows of data-peft/dialogue-summary-training-results-peft.csv.
CsvRows == 2

\* dataset['test'][0:10]: the dialogues of the in-notebook ROUGE evaluation.
NumDialogues == 10

\* TrainingArguments(max_steps=1)
max_steps == 1

\* The prompts of a PPO batch (batch_size=16 in the notebook).
BatchLen == 2

\* The reward model's class scores: two values give the three orderings of
\* the scores of two classes.
LogitValues == {0, 1}

\* The corpus of an RLHF run has up to 5 * 2^MaxDoublings dialogues.
MaxDoublings == 4

\* The CSV files of a report directory, and the rows of a CSV file.
MaxFiles == 3

MaxRows == 2

\* The records of an arbitrary corpus given to build_dataset.
MaxRecords == 6

\* build_dataset(..., input_min_text_length=200, ...)
input_min_text_length == 200

\* build_dataset(..., input_max_text_length=1000)
input_max_text_length == 1000

\* max_ppo_steps = 10
max_ppo_steps == 10

\* not_hate_index = 0
not_hate_index == 0

\* evaluate_toxicity(..., num_samples=10)
num_samples == 10

\* ------------------------------------------------------------------ state

VARIABLES
    nb,             \* the notebook the kernel is running
    pc,             \* index of the next code cell of that notebook
    halted,         \* TRUE once a cell raised and Run All stopped
    ns,             \* the kernel's user namespace: bound name -> value
    out,            \* the lines printed by the error-handling code
    caught,         \* exceptions caught by notebook code: [nb, line, call]
    raised,         \* the uncaught exception that stopped the run, or "none"
    defaultBucket,  \* what sess.default_bucket() returns in this account
    store,          \* the %store database: stored name -> value
    storeLog,       \* the names stored, in the order of the %store calls
    installs,       \* the package requests executed: [line, op, pkg, ver]
    s3copies,       \* the aws s3 cp calls executed: [src, dst, file]
    uploads,        \* the sess.upload_data calls executed: [file, bucket, prefix]
    job,            \* the processing job: [status, name, input, output, written]
                    \* (written: report directory -> its CSV part files)
    waited,         \* TRUE once running_processor.wait() has returned
    reads,          \* what the cells read of the job: [line, kind, status, waited]
    local,          \* ./amazon-reviews-spark-analyzer/: directory -> its CSV files
    heap,           \* the model objects created by the kernel, by identity
    ref,            \* the object each model-holding name refers to
    evals,          \* the generations printed or scored: [line, label, model]
    gen,            \* greedy decoding is a function of the weights: state -> hit
    lists,          \* the summaries lists: name -> sequence of summaries
    results,        \* the <model>_results of rouge.compute: name -> scores
    csv,            \* the results DataFrame read from the CSV file: column -> summaries
    printed,        \* the improvements printed: [line, label, values]
    numBatches,     \* the batches ppo_trainer.dataloader yields
    iter,           \* the batches the dataloader has yielded so far
    step,           \* the PPO loop's step variable
    phase,          \* where the PPO cell is: idle, head, generate, step
    prompt_tensors, \* the queries of the current batch
    summary_tensors,\* the responses generated for the current batch
    logits,         \* the reward model's raw class scores of the current pairs
    reward_tensors, \* the rewards computed from them
    stepArgs,       \* the arguments of the last ppo_trainer.step call
    stepsTaken,     \* the ppo_trainer.step calls made
    ppoTrace,       \* the calls of the current loop iteration, in order
    toxEvals,       \* the evaluate_toxicity calls made, in order
    corpus,         \* the train split of the hub's dialogue dataset
    dataset         \* what build_dataset returned: [train, test]

kernelVars == <<nb, pc, halted, ns, out, caught, raised>>
cloudVars == <<defaultBucket, store, storeLog, installs, s3copies, uploads>>
jobVars == <<job, waited, reads, local>>
peftVars == <<heap, ref, evals, gen, lists, results, csv, printed>>
rlhfVars == <<numBatches, iter, step, phase, prompt_tensors, summary_tensors,
              logits, reward_tensors, stepArgs, stepsTaken, ppoTrace, toxEvals,
              corpus, dataset>>
mlVars == <<peftVars, rlhfVars>>

\* ------------------------------------------------------------------ values

\* A Python str is a sequence of tokens; "/" is a token of its own in a URI.
Str(s) == <<s>>
True == Str("True")
Object == Str("<object>")

\* Binding a name in a namespace or in the store (an assignment overwrites).
Bind(f, name, value) == (name :> value) @@ f
Bound(f, name) == name \in DOMAIN f
Empty == [n \in {} |-> <<>>]

\* "s3://{}/amazon-reviews-pds/tsv".format(bucket)
s3_private_path_tsv_format(bucket) ==
    <<"s3:", "/", "/", bucket, "/", "amazon-reviews-pds", "/", "tsv">>

\* f's3://{bucket}/data-summarization/'
raw_input_data_s3_uri_format(bucket) ==
    <<"s3:", "/", "/", bucket, "/", "data-summarization", "/">>

s3_public_path_tsv_value ==
    <<"s3:", "/", "/", "dsoaws", "/", "amazon-reviews-pds", "/", "tsv">>

model_checkpoint_value == Str("google/flan-t5-base")

\* The three review files copied by the setup notebook.
ReviewFiles ==
    { "amazon_reviews_us_Digital_Software_v1_00.tsv.gz",
      "amazon_reviews_us_Digital_Video_Games_v1_00.tsv.gz",
      "amazon_reviews_us_Gift_Card_v1_00.tsv.gz" }

DialogueFiles == {"dialogsum-1.csv", "dialogsum-2.csv"}

\* ---------------------------------------------------- the setup notebook

Pkg(name, ver) == [pkg |-> name, ver |-> ver]

\* The code cells of the setup notebook, in order, by kind and first line.
SetupCells == <<
    [kind |-> "shell", line |-> 49],
    [kind |-> "memory_check", line |-> 60],
    [kind |-> "session", line |-> 82],
    [kind |-> "install", line |-> 106, op |-> "pip install",
     pkgs |-> {Pkg("sagemaker", "2.136.0")}],
    [kind |-> "install", line |-> 117, op |-> "pip install",
     pkgs |-> {Pkg("sagemaker-experiments", "0.1.28")}],
    [kind |-> "install", line |-> 143, op |-> "pip uninstall",
     pkgs |-> {Pkg("torch", "1.13.1"), Pkg("torchdata", "0.5.1")}],
    [kind |-> "install", line |-> 156, op |-> "pip install",
     pkgs |-> {Pkg("torch", "1.13.1"), Pkg("torchdata", "0.5.1")}],
    [kind |-> "install", line |-> 189, op |-> "pip install",
     pkgs |-> {Pkg("transformers", "4.27.2"), Pkg("datasets", "2.11.0"),
               Pkg("accelerate", "0.17.0"), Pkg("bitsandbytes", "0.37.0"),
               Pkg("promptsource", "0.2.3"), Pkg("evaluate", "0.4.0"),
               Pkg("py7zr", "0.20.4"), Pkg("sentencepiece", "0.1.99"),
               Pkg("rouge_score", "0.1.2"), Pkg("loralib", "0.1.1"),
               Pkg("peft", "0.3.0"),
               Pkg("git+https://github.com/lvwerra/trl.git", "@25fa1bd")}],
    [kind |-> "install", line |-> 229, op |-> "pip install",
     pkgs |-> {Pkg("ray", "2.5.0")}],
    [kind |-> "install", line |-> 255, op |-> "pip install",
     pkgs |-> {Pkg("PyAthena", "2.1.1")}],
    [kind |-> "install", line |-> 281, op |-> "pip install",
     pkgs |-> {Pkg("SQLAlchemy", "1.3.23"), Pkg("psycopg2-binary", "2.9.1")}],
    [kind |-> "install", line |-> 308, op |-> "conda install",
     pkgs |-> {Pkg("zip", "")}],
    [kind |-> "install", line |-> 327, op |-> "pip install",
     pkgs |-> {Pkg("matplotlib", "3.1.3")}],
    [kind |-> "install", line |-> 353, op |-> "pip install",
     pkgs |-> {Pkg("seaborn", "0.10.0")}],
    [kind |-> "install", line |-> 379, op |-> "pip install",
     pkgs |-> {Pkg("scikit-learn", "0.23.1")}],
    [kind |-> "role", line |-> 397],
    [kind |-> "shell", line |-> 426],
    [kind |-> "shell", line |-> 438],
    [kind |-> "assign", line |-> 466, name |-> "s3_public_path_tsv"],
    [kind |-> "assign", line |-> 477, name |-> "s3_private_path_tsv"],
    [kind |-> "copy_reviews", line |-> 489],
    [kind |-> "store", line |-> 502, name |-> "s3_public_path_tsv"],
    [kind |-> "store", line |-> 513, name |-> "s3_private_path_tsv"],
    [kind |-> "upload", line |-> 533],
    [kind |-> "assign", line |-> 545, name |-> "raw_input_data_s3_uri"],
    [kind |-> "shell", line |-> 557],
    [kind |-> "store", line |-> 568, name |-> "raw_input_data_s3_uri"],
    [kind |-> "assign", line |-> 579, name |-> "setup_dependencies_passed"],
    [kind |-> "assign", line |-> 598, name |-> "model_checkpoint"],
    [kind |-> "store", line |-> 609, name |-> "model_checkpoint"],
    [kind |-> "store", line |-> 620, name |-> "setup_dependencies_passed"],
    [kind |-> "shell", line |-> 631],
    [kind |-> "html", line |-> 649] >>

\* The cell the kernel is about to run, when notebook n with cells c is running.
AtCell(n, cells, kind) ==
    /\ nb = n
    /\ ~halted
    /\ pc \in 1..Len(cells)
    /\ cells[pc].kind = kind

\* An uncaught exception: the cell fails and Run All stops there.
Raise(exc) ==
    /\ halted' = TRUE
    /\ raised' = exc
    /\ UNCHANGED pc

\* The cell completes and Run All goes on to the next cell.
Advance ==
    /\ pc' = pc + 1
    /\ UNCHANGED <<halted, raised>>

\* !python --version, !pip list, !aws s3 ls, %store, %%html: a shell command or
\* a listing; a failing shell command prints and does not raise.
SetupShell ==
    /\ AtCell("setup", SetupCells, "shell")
    /\ Advance
    /\ UNCHANGED <<nb, ns, out, caught>>
    /\ UNCHANGED cloudVars
    /\ UNCHANGED jobVars
    /\ UNCHANGED mlVars

\* notebook_memory.total < 32 GB: print the banner, else set correct_instance_type.
SetupMemoryCheck ==
    /\ AtCell("setup", SetupCells, "memory_check")
    /\ \E enough \in BOOLEAN :
          ns' = IF enough
                THEN Bind(Bind(ns, "notebook_memory", Object),
                          "correct_instance_type", True)
                ELSE Bind(ns, "notebook_memory", Object)
    /\ Advance
    /\ UNCHANGED <<nb, out, caught>>
    /\ UNCHANGED cloudVars
    /\ UNCHANGED jobVars
    /\ UNCHANGED mlVars

\* sess = sagemaker.Session(); bucket = sess.default_bucket(); region = ...
\* Missing credentials surface as an exception of the SDK.
SetupSession ==
    /\ AtCell("setup", SetupCells, "session")
    /\ \/ /\ ns' = Bind(Bind(Bind(ns, "sess", Object),
                             "bucket", Str(defaultBucket)),
                        "region", Str("region"))
          /\ Advance
       \/ /\ Raise("NoCredentialsError")
          /\ UNCHANGED ns
    /\ UNCHANGED <<nb, out, caught>>
    /\ UNCHANGED cloudVars
    /\ UNCHANGED jobVars
    /\ UNCHANGED mlVars

\* A variant of the install cells that requests every package without a version.
SetupInstallUnpinned ==
    /\ AtCell("setup", SetupCells, "install")
    /\ installs' = installs \cup
          { [line |-> SetupCells[pc].line, op |-> SetupCells[pc].op,
             pkg |-> p.pkg, ver |-> ""] : p \in SetupCells[pc].pkgs }
    /\ Advance
    /\ UNCHANGED <<nb, ns, out, caught>>
    /\ UNCHANGED <<defaultBucket, store, storeLog, s3copies, uploads>>
    /\ UNCHANGED jobVars
    /\ UNCHANGED mlVars

\* %pip install / %pip uninstall / !pip install / %conda install: every package
\* of the cell is requested; a failing install prints and does not raise.
SetupInstall ==
    /\ AtCell("setup", SetupCells, "install")
    /\ installs' = installs \cup
          { [line |-> SetupCells[pc].line, op |-> SetupCells[pc].op,
             pkg |-> p.pkg, ver |-> p.ver] : p \in SetupCells[pc].pkgs }
    /\ Advance
    /\ UNCHANGED <<nb, ns, out, caught>>
    /\ UNCHANGED <<defaultBucket, store, storeLog, s3copies, uploads>>
    /\ UNCHANGED jobVars
    /\ UNCHANGED mlVars

\* %store name: persist the value bound to name; an unbound name is a UsageError.
StoreMagic(name) ==
    IF Bound(ns, name)
    THEN /\ store' = Bind(store, name, ns[name])
         /\ storeLog' = Append(storeLog, name)
         /\ Advance
    ELSE /\ Raise("UsageError")
         /\ UNCHANGED <<store, storeLog>>

\* try: role = sagemaker.get_execution_role(); print(role)
\* except: print(hint); pass
\* %store role
SetupRole ==
    /\ AtCell("setup", SetupCells, "role")
    /\ \/ /\ ns' = Bind(ns, "role", Str("arn:aws:iam::role"))
          /\ UNCHANGED <<out, caught>>
       \/ /\ caught' = caught \cup
                {[nb |-> "setup", line |-> 399, call |-> "get_execution_role"]}
          /\ out' = Append(out, "If there is an exception, please set the role directly")
          /\ UNCHANGED ns
    /\ IF Bound(ns', "role")
       THEN /\ store' = Bind(store, "role", ns'["role"])
            /\ storeLog' = Append(storeLog, "role")
            /\ Advance
       ELSE /\ Raise("UsageError")
            /\ UNCHANGED <<store, storeLog>>
    /\ UNCHANGED <<nb, defaultBucket, installs, s3copies, uploads>>
    /\ UNCHANGED jobVars
    /\ UNCHANGED mlVars

\* The value a setup cell assigns to its name.
SetupValue(name) ==
    CASE name = "s3_public_path_tsv" -> s3_public_path_tsv_value
      [] name = "s3_private_path_tsv" -> s3_private_path_tsv_format(ns["bucket"][1])
      [] name = "raw_input_data_s3_uri" -> raw_input_data_s3_uri_format(ns["bucket"][1])
      [] name = "setup_dependencies_passed" -> True
      [] name = "model_checkpoint" -> model_checkpoint_value

\* name = <value>
SetupAssign ==
    /\ AtCell("setup", SetupCells, "assign")
    /\ ns' = Bind(ns, SetupCells[pc].name, SetupValue(SetupCells[pc].name))
    /\ Advance
    /\ UNCHANGED <<nb, out, caught>>
    /\ UNCHANGED cloudVars
    /\ UNCHANGED jobVars
    /\ UNCHANGED mlVars

\* !aws s3 cp --recursive $s3_public_path_tsv/ $s3_private_path_tsv/
\*     --exclude "*" --include "<file>"       (three times)
SetupCopyReviews ==
    /\ AtCell("setup", SetupCells, "copy_reviews")
    /\ s3copies' = s3copies \cup
          { [src |-> ns["s3_public_path_tsv"] \o <<"/">>,
             dst |-> ns["s3_private_path_tsv"] \o <<"/">>,
             file |-> f] : f \in ReviewFiles }
    /\ Advance
    /\ UNCHANGED <<nb, ns, out, caught>>
    /\ UNCHANGED <<defaultBucket, store, storeLog, installs, uploads>>
    /\ UNCHANGED jobVars
    /\ UNCHANGED mlVars

\* %store <name>
SetupStore ==
    /\ AtCell("setup", SetupCells, "store")
    /\ StoreMagic(SetupCells[pc].name)
    /\ UNCHANGED <<nb, ns, out, caught>>
    /\ UNCHANGED <<defaultBucket, installs, s3copies, uploads>>
    /\ UNCHANGED jobVars
    /\ UNCHANGED mlVars

\* A variant of the upload cell that goes on when an upload fails.
SetupUploadBestEffort ==
    /\ AtCell("setup", SetupCells, "upload")
    /\ \E done \in SUBSET DialogueFiles :
          uploads' = uploads \cup
              { [file |-> f, bucket |-> ns["bucket"][1],
                 prefix |-> "data-summarization"] : f \in done }
    /\ Advance
    /\ UNCHANGED <<nb, ns, out, caught>>
    /\ UNCHANGED <<defaultBucket, store, storeLog, installs, s3copies>>
    /\ UNCHANGED jobVars
    /\ UNCHANGED mlVars

\* sess.upload_data('./data-summarization/dialogsum-N.csv', bucket=bucket,
\*                  key_prefix='data-summarization')   (twice; either may raise)
SetupUpload ==
    /\ AtCell("setup", SetupCells, "upload")
    /\ \/ /\ uploads' = uploads \cup
                { [file |-> f, bucket |-> ns["bucket"][1],
                   prefix |-> "data-summarization"] : f \in DialogueFiles }
          /\ Advance
       \/ /\ Raise("S3UploadFailedError")
          /\ UNCHANGED uploads
    /\ UNCHANGED <<nb, ns, out, caught>>
    /\ UNCHANGED <<defaultBucket, store, storeLog, installs, s3copies>>
    /\ UNCHANGED jobVars
    /\ UNCHANGED mlVars

\* %%html: the closing cell of every notebook shows a button and runs, in the
\* browser,  try { els = ...; els[0].click(); } catch(err) { // NoOp }
\* so a failing click is caught and ignored; the kernel executes nothing.
HtmlCell(n, cells) ==
    /\ AtCell(n, cells, "html")
    /\ \/ UNCHANGED caught
       \/ caught' = caught \cup
             {[nb |-> n, line |-> cells[pc].line + 6, call |-> "els[0].click"]}
    /\ Advance
    /\ UNCHANGED <<nb, ns, out>>

SetupHtml ==
    /\ HtmlCell("setup", SetupCells)
    /\ UNCHANGED cloudVars
    /\ UNCHANGED jobVars
    /\ UNCHANGED mlVars

SetupNext ==
    \/ SetupShell
    \/ SetupMemoryCheck
    \/ SetupSession
    \/ SetupInstall
    \/ SetupRole
    \/ SetupAssign
    \/ SetupCopyReviews
    \/ SetupStore
    \/ SetupUpload
    \/ SetupHtml

\* ----------------------------------------------- the data-quality notebook

\* The code cells of the data-quality notebook, in order.
DataQualityCells == <<
    [kind |-> "restore", line |-> 92, name |-> "setup_dependencies_passed"],
    [kind |-> "flag_check", line |-> 101],
    [kind |-> "print_flag", line |-> 115],
    [kind |-> "session", line |-> 132],
    [kind |-> "shell", line |-> 160],
    [kind |-> "processor", line |-> 169],
    [kind |-> "assign", line |-> 187, name |-> "s3_input_data"],
    [kind |-> "shell", line |-> 197],
    [kind |-> "output_names", line |-> 213],
    [kind |-> "assign", line |-> 229, name |-> "s3_output_analyze_data"],
    [kind |-> "run", line |-> 254],
    [kind |-> "describe", line |-> 276],
    [kind |-> "describe", line |-> 295],
    [kind |-> "assign", line |-> 314, name |-> "s3_job_output_prefix"],
    [kind |-> "from_processing_name", line |-> 340],
    [kind |-> "wait", line |-> 357],
    [kind |-> "ls_output", line |-> 384],
    [kind |-> "cp_output", line |-> 406],
    [kind |-> "def", line |-> 425, name |-> "load_dataset"],
    [kind |-> "load", line |-> 441, name |-> "df_constraint_checks",
     dir |-> "constraint-checks"],
    [kind |-> "load", line |-> 458, name |-> "df_dataset_metrics",
     dir |-> "dataset-metrics"],
    [kind |-> "load", line |-> 477, name |-> "df_success_metrics",
     dir |-> "success-metrics"],
    [kind |-> "load", line |-> 496, name |-> "df_constraint_suggestions",
     dir |-> "constraint-suggestions"],
    [kind |-> "html", line |-> 513] >>

\* The report directories the Spark job writes below s3_output_analyze_data.
ReportDirs ==
    {"dataset-metrics", "constraint-checks", "success-metrics",
     "constraint-suggestions"}

\* strftime("%Y-%m-%d-%H-%M-%S", gmtime()) at successive seconds.
Timestamps == <<"2023-06-01-00-00-00", "2023-06-01-00-00-01">>

NoJob == [status |-> "none", name |-> <<>>, input |-> <<>>, output |-> <<>>,
          written |-> Empty]

Terminal == {"Completed", "Failed", "Stopped"}

\* A variant of the input location that names another prefix.
s3_input_data_format_other_prefix(bucket) ==
    <<"s3:", "/", "/", bucket, "/", "amazon-reviews-pds", "/", "parquet", "/">>

\* "s3://{}/amazon-reviews-pds/tsv/".format(bucket)
s3_input_data_format(bucket) ==
    <<"s3:", "/", "/", bucket, "/", "amazon-reviews-pds", "/", "tsv", "/">>

\* "s3://{}/{}/output".format(bucket, output_prefix)
s3_output_analyze_data_format(bucket, output_prefix) ==
    <<"s3:", "/", "/", bucket, "/">> \o output_prefix \o <<"/", "output">>

\* "amazon-reviews-spark-analyzer-{}".format(timestamp_prefix)
output_prefix_format(timestamp_prefix) ==
    <<"amazon-reviews-spark-analyzer", "-", timestamp_prefix>>

\* The name the SDK gives the job: base_job_name, "-", the time of submission.
name_from_base(base_job_name, timestamp) == <<base_job_name, "-", timestamp>>

\* The setup notebook's run is over (finished or stopped); the data-quality
\* notebook is opened and run in a kernel of its own: nothing but the store
\* and the cloud's state carries over.
OpenDataQuality ==
    /\ nb = "setup"
    /\ halted \/ pc > Len(SetupCells)
    /\ nb' = "dq"
    /\ pc' = 1
    /\ halted' = FALSE
    /\ raised' = "none"
    /\ ns' = Empty
    /\ out' = <<>>
    /\ UNCHANGED caught
    /\ UNCHANGED cloudVars
    /\ UNCHANGED jobVars
    /\ UNCHANGED mlVars

\* %store -r name: bind the stored value; a name that is not in the store is
\* reported ("no stored variable or alias") and nothing is bound or raised.
DataQualityRestore ==
    /\ AtCell("dq", DataQualityCells, "restore")
    /\ ns' = IF Bound(store, DataQualityCells[pc].name)
             THEN Bind(ns, DataQualityCells[pc].name,
                       store[DataQualityCells[pc].name])
             ELSE ns
    /\ Advance
    /\ UNCHANGED <<nb, out, caught>>
    /\ UNCHANGED cloudVars
    /\ UNCHANGED jobVars
    /\ UNCHANGED mlVars

\* The three print calls of the except NameError branch.
ErrorBanner ==
    << "++++++++++++++++++++++++++++++++++++++++++++++",
       "[ERROR] YOU HAVE TO RUN THE PREVIOUS NOTEBOOKS",
       "++++++++++++++++++++++++++++++++++++++++++++++" >>

\* A variant of the existence check without its try/except.
FlagCheckUnguarded ==
    /\ IF Bound(ns, "setup_dependencies_passed")
       THEN Advance
       ELSE Raise("NameError")
    /\ UNCHANGED <<ns, out, caught>>

\* try: setup_dependencies_passed
\* except NameError: print(banner)
FlagCheck ==
    /\ IF Bound(ns, "setup_dependencies_passed")
       THEN UNCHANGED <<out, caught>>
       ELSE /\ out' = out \o ErrorBanner
            /\ caught' = caught \cup
                  {[nb |-> "dq", line |-> 103, call |-> "setup_dependencies_passed"]}
    /\ Advance
    /\ UNCHANGED ns

DataQualityFlagCheck ==
    /\ AtCell("dq", DataQualityCells, "flag_check")
    /\ FlagCheck
    /\ UNCHANGED nb
    /\ UNCHANGED cloudVars
    /\ UNCHANGED jobVars
    /\ UNCHANGED mlVars

\* print(setup_dependencies_passed): a NameError when the flag was not restored.
DataQualityPrintFlag ==
    /\ AtCell("dq", DataQualityCells, "print_flag")
    /\ IF Bound(ns, "setup_dependencies_passed")
       THEN Advance
       ELSE Raise("NameError")
    /\ UNCHANGED <<nb, ns, out, caught>>
    /\ UNCHANGED cloudVars
    /\ UNCHANGED jobVars
    /\ UNCHANGED mlVars

\* sess, bucket, role, region, config; the SDK calls may raise.
DataQualitySession ==
    /\ AtCell("dq", DataQualityCells, "session")
    /\ \/ /\ ns' = Bind(Bind(Bind(Bind(Bind(ns, "sess", Object),
                                       "bucket", Str(defaultBucket)),
                                  "role", Str("arn:aws:iam::role")),
                             "region", Str("region")),
                        "config", Object)
          /\ Advance
       \/ /\ Raise("ClientError")
          /\ UNCHANGED ns
    /\ UNCHANGED <<nb, out, caught>>
    /\ UNCHANGED cloudVars
    /\ UNCHANGED jobVars
    /\ UNCHANGED mlVars

\* !pygmentize preprocess_deequ_pyspark.py, !aws s3 ls $s3_input_data
DataQualityShell ==
    /\ AtCell("dq", DataQualityCells, "shell")
    /\ Advance
    /\ UNCHANGED <<nb, ns, out, caught>>
    /\ UNCHANGED cloudVars
    /\ UNCHANGED jobVars
    /\ UNCHANGED mlVars

\* processor = PySparkProcessor(base_job_name="spark-amazon-reviews-analyzer", ...)
DataQualityProcessor ==
    /\ AtCell("dq", DataQualityCells, "processor")
    /\ ns' = Bind(ns, "processor", Str("spark-amazon-reviews-analyzer"))
    /\ Advance
    /\ UNCHANGED <<nb, out, caught>>
    /\ UNCHANGED cloudVars
    /\ UNCHANGED jobVars
    /\ UNCHANGED mlVars

\* The value a data-quality cell assigns to its name.
DataQualityValue(name) ==
    CASE name = "s3_input_data" -> s3_input_data_format(ns["bucket"][1])
      [] name = "s3_output_analyze_data" ->
            s3_output_analyze_data_format(ns["bucket"][1], ns["output_prefix"])
      [] name = "s3_job_output_prefix" -> ns["output_prefix"]
      [] name = "load_dataset" -> Object

\* A variant of the assignment cells in which the cell that sets
\* s3_job_output_prefix also points s3_output_analyze_data at that prefix.
DataQualityAssignRebinds ==
    /\ \/ AtCell("dq", DataQualityCells, "assign")
       \/ AtCell("dq", DataQualityCells, "def")
    /\ ns' = IF DataQualityCells[pc].name = "s3_job_output_prefix"
             THEN Bind(Bind(ns, "s3_job_output_prefix", ns["output_prefix"]),
                       "s3_output_analyze_data",
                       <<"s3:", "/", "/", ns["bucket"][1], "/">> \o ns["output_prefix"])
             ELSE Bind(ns, DataQualityCells[pc].name,
                       DataQualityValue(DataQualityCells[pc].name))
    /\ Advance
    /\ UNCHANGED <<nb, out, caught>>
    /\ UNCHANGED cloudVars
    /\ UNCHANGED jobVars
    /\ UNCHANGED mlVars

\* name = <value>, def name(...)
DataQualityAssign ==
    /\ \/ AtCell("dq", DataQualityCells, "assign")
       \/ AtCell("dq", DataQualityCells, "def")
    /\ ns' = Bind(ns, DataQualityCells[pc].name,
                  DataQualityValue(DataQualityCells[pc].name))
    /\ Advance
    /\ UNCHANGED <<nb, out, caught>>
    /\ UNCHANGED cloudVars
    /\ UNCHANGED jobVars
    /\ UNCHANGED mlVars

\* timestamp_prefix = strftime(...); output_prefix = ...; processing_job_name = ...
\* print("Processing job name:  {}".format(processing_job_name))
DataQualityOutputNames ==
    /\ AtCell("dq", DataQualityCells, "output_names")
    /\ \E t \in 1..Len(Timestamps) :
          /\ ns' = Bind(Bind(Bind(ns, "timestamp_prefix", Str(Timestamps[t])),
                             "output_prefix", output_prefix_format(Timestamps[t])),
                        "processing_job_name", output_prefix_format(Timestamps[t]))
          /\ out' = out \o <<"Processing job name:">>
                        \o output_prefix_format(Timestamps[t])
    /\ Advance
    /\ UNCHANGED <<nb, caught>>
    /\ UNCHANGED cloudVars
    /\ UNCHANGED jobVars
    /\ UNCHANGED mlVars

\* The position of a timestamp in the clock's sequence.
TimeIndex(ts) == CHOOSE t \in 1..Len(Timestamps) : Timestamps[t] = ts

\* processor.run(submit_app=..., arguments=["s3_input_data", s3_input_data,
\*     "s3_output_analyze_data", s3_output_analyze_data], logs=True, wait=False):
\* the job is created and the call returns while the job is in progress.
DataQualityRun ==
    /\ AtCell("dq", DataQualityCells, "run")
    /\ \/ /\ \E t \in TimeIndex(ns["timestamp_prefix"][1])..Len(Timestamps) :
                job' = [status |-> "InProgress",
                        name |-> name_from_base(ns["processor"][1], Timestamps[t]),
                        input |-> ns["s3_input_data"],
                        output |-> ns["s3_output_analyze_data"],
                        written |-> Empty]
          /\ Advance
       \/ /\ Raise("ClientError")
          /\ UNCHANGED job
    /\ UNCHANGED <<nb, ns, out, caught>>
    /\ UNCHANGED cloudVars
    /\ UNCHANGED <<waited, reads, local>>
    /\ UNCHANGED mlVars

\* A CSV file of k rows: its header line (row 0) and the k rows below it.
CsvFile(name, k) == [r \in 1..(k + 1) |-> [file |-> name, row |-> r - 1]]

\* The part files of a report the Spark job writes: part p holds p rows.
Report(dir, parts) == [p \in 1..parts |-> CsvFile(<<dir, p>>, p)]

\* The platform runs the job (at most max_runtime_in_seconds=300): it completes
\* with all four reports written, or fails or is stopped with some of them.
\* Spark writes each report as one or more part files.
JobProgress ==
    /\ job.status = "InProgress"
    /\ \E parts \in 1..MaxFiles :
          \/ job' = [job EXCEPT !.status = "Completed",
                                !.written = [d \in ReportDirs |-> Report(d, parts)]]
          \/ \E w \in SUBSET ReportDirs, st \in {"Failed", "Stopped"} :
                job' = [job EXCEPT !.status = st,
                                   !.written = [d \in w |-> Report(d, parts)]]
    /\ UNCHANGED kernelVars
    /\ UNCHANGED cloudVars
    /\ UNCHANGED <<waited, reads, local>>
    /\ UNCHANGED mlVars

\* Where the cell reads: the job it names, the S3 location of the !aws s3
\* command line, or the local directory given to load_dataset.
ReadFrom ==
    CASE DataQualityCells[pc].kind = "describe" -> job.name
      [] DataQualityCells[pc].kind = "from_processing_name" -> ns["processing_job_name"]
      [] DataQualityCells[pc].kind = "ls_output" -> ns["s3_output_analyze_data"] \o <<"/">>
      [] DataQualityCells[pc].kind = "cp_output" -> ns["s3_output_analyze_data"]
      [] DataQualityCells[pc].kind = "load" ->
            <<".", "/", "amazon-reviews-spark-analyzer", "/",
              DataQualityCells[pc].dir, "/">>

\* What a cell reads of the job: its description, or its S3 output.
Read(kind) ==
    reads' = reads \cup
        {[line |-> DataQualityCells[pc].line, kind |-> kind,
          status |-> job.status, waited |-> waited, from |-> ReadFrom]}

\* processing_job_name = processor.jobs[-1].describe()["ProcessingJobName"]
DataQualityDescribe ==
    /\ AtCell("dq", DataQualityCells, "describe")
    /\ Read("describe")
    /\ ns' = Bind(ns, "processing_job_name", job.name)
    /\ Advance
    /\ UNCHANGED <<nb, out, caught>>
    /\ UNCHANGED cloudVars
    /\ UNCHANGED <<job, waited, local>>
    /\ UNCHANGED mlVars

\* running_processor = ProcessingJob.from_processing_name(processing_job_name, sess)
\* processing_job_description = running_processor.describe()
DataQualityFromProcessingName ==
    /\ AtCell("dq", DataQualityCells, "from_processing_name")
    /\ IF ns["processing_job_name"] = job.name
       THEN /\ Read("describe")
            /\ ns' = Bind(Bind(ns, "running_processor", job.name),
                          "processing_job_description", Object)
            /\ Advance
       ELSE /\ Raise("ClientError")
            /\ UNCHANGED <<ns, reads>>
    /\ UNCHANGED <<nb, out, caught>>
    /\ UNCHANGED cloudVars
    /\ UNCHANGED <<job, waited, local>>
    /\ UNCHANGED mlVars

\* A variant of wait() that returns without waiting for the job to end.
WaitReturnsAtOnce ==
    /\ waited' = TRUE
    /\ Advance

\* running_processor.wait(): polls until the job has ended; returns for a
\* Completed job and (with a warning) for a Stopped one, raises for a Failed one.
Wait ==
    /\ job.status \in Terminal
    /\ IF job.status = "Failed"
       THEN /\ Raise("UnexpectedStatusException")
            /\ UNCHANGED waited
       ELSE /\ waited' = TRUE
            /\ Advance

DataQualityWait ==
    /\ AtCell("dq", DataQualityCells, "wait")
    /\ Wait
    /\ UNCHANGED <<nb, ns, out, caught>>
    /\ UNCHANGED cloudVars
    /\ UNCHANGED <<job, reads, local>>
    /\ UNCHANGED mlVars

\* !aws s3 ls --recursive $s3_output_analyze_data/
DataQualityLsOutput ==
    /\ AtCell("dq", DataQualityCells, "ls_output")
    /\ Read("output")
    /\ Advance
    /\ UNCHANGED <<nb, ns, out, caught>>
    /\ UNCHANGED cloudVars
    /\ UNCHANGED <<job, waited, local>>
    /\ UNCHANGED mlVars

\* !aws s3 cp --recursive $s3_output_analyze_data ./amazon-reviews-spark-analyzer/
\*     --exclude="*" --include="*.csv"
DataQualityCpOutput ==
    /\ AtCell("dq", DataQualityCells, "cp_output")
    /\ Read("output")
    /\ local' = IF ns["s3_output_analyze_data"] = job.output
                THEN job.written
                ELSE Empty
    /\ Advance
    /\ UNCHANGED <<nb, ns, out, caught>>
    /\ UNCHANGED cloudVars
    /\ UNCHANGED <<job, waited>>
    /\ UNCHANGED mlVars

\* glob.glob("{}/*.csv".format(path)): the CSV files of the directory, none
\* when the directory does not exist.
glob(dir) == IF dir \in DOMAIN local THEN local[dir] ELSE <<>>

\* pd.read_csv(f, sep=sep, header=0): the rows below the header line.
read_csv(file) == Tail(file)

\* pd.concat(frames, ignore_index=True): the rows of the frames one after
\* the other, indexed 0..n-1.
RECURSIVE Rows(_)
Rows(frames) ==
    IF frames = <<>> THEN <<>> ELSE Head(frames) \o Rows(Tail(frames))

concat(frames) ==
    [i \in 1..Len(Rows(frames)) |-> [index |-> i - 1, data |-> Rows(frames)[i]]]

\* A variant of load_dataset that reads only the first matching file.
load_dataset_first_file(dir) ==
    concat(<<read_csv(glob(dir)[1])>>)

\* def load_dataset(path, sep, header): pd.concat([pd.read_csv(f, ...) for f in
\* glob.glob(...)], ignore_index=True); pd.concat raises ValueError ("No
\* objects to concatenate") on an empty list.
load_dataset(dir) ==
    concat([f \in 1..Len(glob(dir)) |-> read_csv(glob(dir)[f])])

\* A variant of the load cells that catches the error of an empty directory.
DataQualityLoadSwallow ==
    /\ AtCell("dq", DataQualityCells, "load")
    /\ Read("output")
    /\ IF glob(DataQualityCells[pc].dir) # <<>>
       THEN /\ ns' = Bind(ns, DataQualityCells[pc].name,
                          load_dataset(DataQualityCells[pc].dir))
            /\ UNCHANGED caught
       ELSE /\ caught' = caught \cup
                  {[nb |-> "dq", line |-> DataQualityCells[pc].line,
                    call |-> "load_dataset"]}
            /\ UNCHANGED ns
    /\ Advance
    /\ UNCHANGED <<nb, out>>
    /\ UNCHANGED cloudVars
    /\ UNCHANGED <<job, waited, local>>
    /\ UNCHANGED mlVars

\* df = load_dataset(path="./amazon-reviews-spark-analyzer/<dir>/", sep, header):
\* pd.concat of the files matching <path>/*.csv; no file is a ValueError.
DataQualityLoad ==
    /\ AtCell("dq", DataQualityCells, "load")
    /\ Read("output")
    /\ IF glob(DataQualityCells[pc].dir) # <<>>
       THEN /\ ns' = Bind(ns, DataQualityCells[pc].name,
                          load_dataset(DataQualityCells[pc].dir))
            /\ Advance
       ELSE /\ Raise("ValueError")
            /\ UNCHANGED ns
    /\ UNCHANGED <<nb, out, caught>>
    /\ UNCHANGED cloudVars
    /\ UNCHANGED <<job, waited, local>>
    /\ UNCHANGED mlVars

DataQualityHtml ==
    /\ HtmlCell("dq", DataQualityCells)
    /\ UNCHANGED cloudVars
    /\ UNCHANGED jobVars
    /\ UNCHANGED mlVars

DataQualityNext ==
    \/ OpenDataQuality
    \/ DataQualityRestore
    \/ DataQualityFlagCheck
    \/ DataQualityPrintFlag
    \/ DataQualitySession
    \/ DataQualityShell
    \/ DataQualityProcessor
    \/ DataQualityAssign
    \/ DataQualityOutputNames
    \/ DataQualityRun
    \/ JobProgress
    \/ DataQualityDescribe
    \/ DataQualityFromProcessingName
    \/ DataQualityWait
    \/ DataQualityLsOutput
    \/ DataQualityCpOutput
    \/ DataQualityLoad
    \/ DataQualityHtml

\* -------------------------------------------- the PEFT fine-tuning notebook

\* A model object: which weights it was loaded from, how many optimizer steps
\* were applied to them since, and its LoRA adapters (none, freshly injected,
\* trained here, or loaded from the S3 checkpoint).
ModelState(base, steps, lora) ==
    [base |-> base, steps |-> steps, lora |-> lora, vhead |-> FALSE]

\* AutoModelForSeq2SeqLM.from_pretrained('google/flan-t5-base', ...)
Pretrained == ModelState("google/flan-t5-base", 0, "none")

\* AutoModelForSeq2SeqLM.from_pretrained("./flan-dialogue-summary-checkpoint", ...)
InstructCheckpoint == ModelState("flan-dialogue-summary-checkpoint", 0, "none")

\* The ROUGE metrics modelled: unigram and bigram overlap with the reference.
Metrics == {"rouge1", "rouge2"}

\* A summary of dialogue dlg that reproduces hit of the RefLen words of the
\* reference summary, written by `by` (a model's state, "human" or "csv").
Summary(dlg, hit, by) == [dlg |-> dlg, hit |-> hit, by |-> by]

\* dataset['test'][0:n]['summary']: the human baseline is the reference itself.
HumanBaseline(n) == [i \in 1..n |-> Summary(i, RefLen, "human")]

\* A column of data-peft/dialogue-summary-training-results-peft.csv.
CsvColumn(hit) == [i \in 1..CsvRows |-> Summary(i, hit, "csv")]

RECURSIVE SumOver(_, _, _)
SumOver(seq, i, bigram) ==
    IF i > Len(seq) THEN 0
    ELSE (IF bigram
          THEN (IF seq[i].hit > 0 THEN seq[i].hit - 1 ELSE 0)
          ELSE seq[i].hit) + SumOver(seq, i + 1, bigram)

\* rouge.compute(predictions, references, use_aggregator=True): per metric the
\* mean over the samples of the overlap with the reference, in percent.
Rouge(predictions, references) ==
    [ rouge1 |-> (100 * SumOver(predictions, 1, FALSE))
                     \div (Len(predictions) * RefLen),
      rouge2 |-> (100 * SumOver(predictions, 1, TRUE))
                     \div (Len(predictions) * (RefLen - 1)) ]

\* np.array(list(a.values())) - np.array(list(b.values())), zipped with a.keys()
Improvement(a, b) == [k \in Metrics |-> a[k] - b[k]]

\* references=human_baseline_summaries[0:len(predictions)]
References(human, predictions) ==
    SubSeq(human, 1, IF Len(predictions) < Len(human)
                     THEN Len(predictions) ELSE Len(human))

\* The code cells of the PEFT notebook, in order.
PeftCells == <<
    [kind |-> "bind", line |-> 36, binds |-> {"load_dataset", "torch", "evaluate"}],
    [kind |-> "bind", line |-> 66, binds |-> {"huggingface_dataset_name", "dataset"}],
    [kind |-> "load_original", line |-> 81],
    [kind |-> "bind", line |-> 95,
     binds |-> {"print_number_of_trainable_model_parameters"}],
    [kind |-> "zero_shot", line |-> 124],
    [kind |-> "bind", line |-> 172, binds |-> {"tokenize_function", "tokenized_datasets"}],
    [kind |-> "bind", line |-> 193, binds |-> {"tokenized_datasets"}],
    [kind |-> "bind", line |-> 204, binds |-> {}],
    [kind |-> "trainer", line |-> 220, name |-> "trainer", model |-> "original_model"],
    [kind |-> "train", line |-> 247, name |-> "trainer"],
    [kind |-> "bind", line |-> 258, binds |-> {}],
    [kind |-> "bind", line |-> 269, binds |-> {}],
    [kind |-> "load_instruct", line |-> 280],
    [kind |-> "qualitative", line |-> 298, binds |-> {"human_baseline_summary"},
     models |-> {"original_model", "instruct_model"}],
    [kind |-> "bind", line |-> 341, binds |-> {"rouge"}],
    [kind |-> "quant_loop", line |-> 359,
     models |-> {"original_model", "instruct_model"}],
    [kind |-> "rouge", line |-> 397, models |-> {"original_model", "instruct_model"}],
    [kind |-> "csv", line |-> 425, read |-> TRUE,
     models |-> {"original_model", "instruct_model"}],
    [kind |-> "improvement", line |-> 459,
     label |-> "INSTRUCT MODEL over HUMAN BASELINE",
     of |-> "instruct_model", over |-> "original_model"],
    [kind |-> "bind", line |-> 488, binds |-> {"lora_config"}],
    [kind |-> "get_peft_model", line |-> 508],
    [kind |-> "trainer", line |-> 521, name |-> "peft_trainer", model |-> "peft_model"],
    [kind |-> "train", line |-> 547, name |-> "peft_trainer"],
    [kind |-> "bind", line |-> 563, binds |-> {}],
    [kind |-> "bind", line |-> 574, binds |-> {}],
    [kind |-> "load_peft", line |-> 585],
    [kind |-> "bind", line |-> 604, binds |-> {}],
    [kind |-> "qualitative", line |-> 622, binds |-> {"baseline_human_summary"},
     models |-> {"original_model", "instruct_model", "peft_model"}],
    [kind |-> "quant_loop", line |-> 669,
     models |-> {"original_model", "instruct_model", "peft_model"}],
    [kind |-> "rouge", line |-> 715,
     models |-> {"original_model", "instruct_model", "peft_model"}],
    [kind |-> "csv", line |-> 754, read |-> FALSE,
     models |-> {"original_model", "instruct_model", "peft_model"}],
    [kind |-> "improvement", line |-> 796,
     label |-> "PEFT MODEL over HUMAN BASELINE",
     of |-> "peft_model", over |-> "original_model"],
    [kind |-> "improvement", line |-> 811,
     label |-> "PEFT MODEL over INSTRUCT MODEL",
     of |-> "peft_model", over |-> "instruct_model"],
    [kind |-> "html", line |-> 835] >>

\* The label a model's output is printed under.
Label(model) ==
    CASE model = "original_model" -> "ORIGINAL MODEL"
      [] model = "instruct_model" -> "INSTRUCT MODEL"
      [] model = "peft_model" -> "PEFT MODEL"

\* The names of a model's summaries list and of its ROUGE results.
SummariesName(model) ==
    CASE model = "original_model" -> "original_model_summaries"
      [] model = "instruct_model" -> "instruct_model_summaries"
      [] model = "peft_model" -> "peft_model_summaries"

ResultsName(model) ==
    CASE model = "original_model" -> "original_model_results"
      [] model = "instruct_model" -> "instruct_model_results"
      [] model = "peft_model" -> "peft_model_results"

\* Several names bound to objects whose value does not matter here.
BindAll(f, names) == [n \in names |-> Object] @@ f

\* A new model object on the heap, bound to name.
NewModel(name, state) ==
    /\ heap' = Append(heap, state)
    /\ ref' = Bind(ref, name, Len(heap) + 1)

\* The state of the object a name refers to.
Deref(name) == heap[ref[name]]

\* imports, dataset loading, tokenizing, printing, shell commands, configs.
PeftBind ==
    /\ AtCell("peft", PeftCells, "bind")
    /\ ns' = BindAll(ns, PeftCells[pc].binds)
    /\ Advance
    /\ UNCHANGED <<nb, out, caught>>
    /\ UNCHANGED peftVars
    /\ UNCHANGED rlhfVars
    /\ UNCHANGED <<cloudVars, jobVars>>

\* original_model = AutoModelForSeq2SeqLM.from_pretrained(model_name, ...)
\* tokenizer = AutoTokenizer.from_pretrained(model_name)
PeftLoadOriginal ==
    /\ AtCell("peft", PeftCells, "load_original")
    /\ \/ /\ NewModel("original_model", Pretrained)
          /\ ns' = BindAll(ns, {"model_name", "original_model", "tokenizer"})
          /\ Advance
       \/ /\ Raise("OSError")
          /\ UNCHANGED <<heap, ref, ns>>
    /\ UNCHANGED <<nb, out, caught>>
    /\ UNCHANGED <<evals, gen, lists, results, csv, printed>>
    /\ UNCHANGED <<cloudVars, jobVars>>
    /\ UNCHANGED rlhfVars

\* output = tokenizer.decode(original_model.generate(...)[0]); printed under
\* 'MODEL GENERATION - ZERO SHOT'.
PeftZeroShot ==
    /\ AtCell("peft", PeftCells, "zero_shot")
    /\ evals' = evals \cup
          {[line |-> PeftCells[pc].line, label |-> "MODEL GENERATION - ZERO SHOT",
            model |-> Deref("original_model")]}
    /\ ns' = BindAll(ns, {"index", "dialogue", "summary", "prompt", "inputs",
                          "output", "dash_line"})
    /\ Advance
    /\ UNCHANGED <<nb, out, caught>>
    /\ UNCHANGED <<heap, ref, gen, lists, results, csv, printed>>
    /\ UNCHANGED <<cloudVars, jobVars>>
    /\ UNCHANGED rlhfVars

\* trainer = Trainer(model=<model>, args=..., train_dataset=...): the trainer
\* holds the model object itself, not a copy of it.
PeftTrainer ==
    /\ AtCell("peft", PeftCells, "trainer")
    /\ ref' = Bind(ref, PeftCells[pc].name, ref[PeftCells[pc].model])
    /\ ns' = BindAll(ns, {"output_dir", PeftCells[pc].name})
    /\ Advance
    /\ UNCHANGED <<nb, out, caught>>
    /\ UNCHANGED <<heap, evals, gen, lists, results, csv, printed>>
    /\ UNCHANGED <<cloudVars, jobVars>>
    /\ UNCHANGED rlhfVars

\* What max_steps optimizer steps do to a model: they update the parameters
\* that require a gradient, the adapters alone once adapters are injected (the
\* base is frozen then), all the weights otherwise.
Trained(m) ==
    IF m.lora = "none"
    THEN [m EXCEPT !.steps = m.steps + max_steps]
    ELSE [m EXCEPT !.lora = "trained"]

\* trainer.train()  /  peft_trainer.train(); ...save_pretrained(peft_model_path)
PeftTrain ==
    /\ AtCell("peft", PeftCells, "train")
    /\ heap' = [heap EXCEPT ![ref[PeftCells[pc].name]] = Trained(@)]
    /\ Advance
    /\ UNCHANGED <<nb, ns, out, caught>>
    /\ UNCHANGED <<ref, evals, gen, lists, results, csv, printed>>
    /\ UNCHANGED <<cloudVars, jobVars>>
    /\ UNCHANGED rlhfVars

\* instruct_model = AutoModelForSeq2SeqLM.from_pretrained(
\*     "./flan-dialogue-summary-checkpoint", ...): an OSError when the copy from
\* S3 did not bring the checkpoint.
PeftLoadInstruct ==
    /\ AtCell("peft", PeftCells, "load_instruct")
    /\ \/ /\ NewModel("instruct_model", InstructCheckpoint)
          /\ ns' = BindAll(ns, {"instruct_model"})
          /\ Advance
       \/ /\ Raise("OSError")
          /\ UNCHANGED <<heap, ref, ns>>
    /\ UNCHANGED <<nb, out, caught>>
    /\ UNCHANGED <<evals, gen, lists, results, csv, printed>>
    /\ UNCHANGED <<cloudVars, jobVars>>
    /\ UNCHANGED rlhfVars

\* The outputs of the cell's models for test dialogue 200, each printed under
\* the model's label.
PeftQualitative ==
    /\ AtCell("peft", PeftCells, "qualitative")
    /\ evals' = evals \cup
          {[line |-> PeftCells[pc].line, label |-> Label(m), model |-> Deref(m)]
              : m \in PeftCells[pc].models}
    /\ ns' = BindAll(ns, PeftCells[pc].binds \cup
                 {"index", "dialogue", "prompt", "input_ids"})
    /\ Advance
    /\ UNCHANGED <<nb, out, caught>>
    /\ UNCHANGED <<heap, ref, gen, lists, results, csv, printed>>
    /\ UNCHANGED <<cloudVars, jobVars>>
    /\ UNCHANGED rlhfVars

\* for idx, dialogue in enumerate(dialogues): ...summaries.append(text_output)
SummariesLoopOverwrites(n, i, hit, by) ==
    IF i > n THEN <<>> ELSE <<Summary(n, hit, by)>>

RECURSIVE SummariesLoop(_, _, _, _)
SummariesLoop(n, i, hit, by) ==
    IF i > n THEN <<>>
    ELSE <<Summary(i, hit, by)>> \o SummariesLoop(n, i + 1, hit, by)

\* dialogues = dataset['test'][0:10]['dialogue']; the lists are emptied and each
\* of the cell's models generates one summary per dialogue. Decoding is greedy:
\* a model whose parameters are those of an earlier generation repeats it.
PeftQuantLoop ==
    /\ AtCell("peft", PeftCells, "quant_loop")
    /\ \E g \in [{Deref(m) : m \in PeftCells[pc].models} -> 0..RefLen] :
          /\ \A st \in DOMAIN g \cap DOMAIN gen : g[st] = gen[st]
          /\ gen' = g @@ gen
          /\ lists' = [m \in PeftCells[pc].models |->
                          SummariesLoop(NumDialogues, 1, g[Deref(m)], Deref(m))]
                      @@ Bind(lists, "human_baseline", HumanBaseline(NumDialogues))
    /\ ns' = BindAll(ns, {"dialogues", "human_baseline_summaries", "df",
                          "zipped_summaries"}
                 \cup {SummariesName(m) : m \in PeftCells[pc].models})
    /\ Advance
    /\ UNCHANGED <<nb, out, caught>>
    /\ UNCHANGED <<heap, ref, evals, results, csv, printed>>
    /\ UNCHANGED <<cloudVars, jobVars>>
    /\ UNCHANGED rlhfVars

\* <model>_results = rouge.compute(predictions=<model>_summaries,
\*     references=human_baseline_summaries[0:len(<model>_summaries)], ...)
RougeResults(models) ==
    [m \in models |->
        Rouge(lists[m], References(lists["human_baseline"], lists[m]))]

\* The in-notebook ROUGE evaluation, printed under each model's label.
PeftRouge ==
    /\ AtCell("peft", PeftCells, "rouge")
    /\ results' = RougeResults(PeftCells[pc].models) @@ results
    /\ evals' = evals \cup
          {[line |-> PeftCells[pc].line, label |-> Label(m), model |-> lists[m][i].by]
              : m \in PeftCells[pc].models, i \in 1..NumDialogues}
    /\ ns' = BindAll(ns, {ResultsName(m) : m \in PeftCells[pc].models})
    /\ Advance
    /\ UNCHANGED <<nb, out, caught>>
    /\ UNCHANGED <<heap, ref, gen, lists, csv, printed>>
    /\ UNCHANGED <<cloudVars, jobVars>>
    /\ UNCHANGED rlhfVars

\* results = pd.read_csv("data-peft/dialogue-summary-training-results-peft.csv")
\* The file's columns are what an earlier, full evaluation wrote.
ReadCsv(hits) ==
    [c \in {"original_model", "instruct_model", "peft_model"} |-> CsvColumn(hits[c])]
    @@ ("human_baseline" :> [i \in 1..CsvRows |-> Summary(i, RefLen, "human")])

\* The lists are replaced by the columns of the CSV file and the ROUGE results
\* are computed again from them.
PeftCsv ==
    /\ AtCell("peft", PeftCells, "csv")
    /\ \/ /\ IF PeftCells[pc].read
             THEN \E hits \in [{"original_model", "instruct_model", "peft_model"}
                                  -> 0..RefLen] : csv' = ReadCsv(hits)
             ELSE UNCHANGED csv
          /\ lists' = [m \in PeftCells[pc].models \cup {"human_baseline"} |-> csv'[m]]
                      @@ lists
          /\ results' = [m \in PeftCells[pc].models |->
                            Rouge(csv'[m], References(csv'["human_baseline"], csv'[m]))]
                        @@ results
          /\ ns' = BindAll(ns, {"results"})
          /\ Advance
       \/ /\ PeftCells[pc].read
          /\ Raise("FileNotFoundError")
          /\ UNCHANGED <<csv, lists, results, ns>>
    /\ UNCHANGED <<nb, out, caught>>
    /\ UNCHANGED <<heap, ref, evals, gen, printed>>
    /\ UNCHANGED <<cloudVars, jobVars>>
    /\ UNCHANGED rlhfVars

\* print("Absolute percentage improvement of <label>")
\* improvement = np.array(list(<of>_results.values()))
\*                 - np.array(list(<over>_results.values()))
PeftImprovement ==
    /\ AtCell("peft", PeftCells, "improvement")
    /\ printed' = printed \cup
          {[line |-> PeftCells[pc].line, label |-> PeftCells[pc].label,
            values |-> Improvement(results[PeftCells[pc].of],
                                   results[PeftCells[pc].over])]}
    /\ ns' = BindAll(ns, {"improvement"})
    /\ Advance
    /\ UNCHANGED <<nb, out, caught>>
    /\ UNCHANGED <<heap, ref, evals, gen, lists, results, csv>>
    /\ UNCHANGED <<cloudVars, jobVars>>
    /\ UNCHANGED rlhfVars

\* peft_model = get_peft_model(original_model, lora_config): the adapters are
\* injected into the modules of original_model itself and its weights are
\* frozen; peft_model wraps that same object.
PeftGetPeftModel ==
    /\ AtCell("peft", PeftCells, "get_peft_model")
    /\ heap' = [heap EXCEPT ![ref["original_model"]].lora = "init"]
    /\ ref' = Bind(ref, "peft_model", ref["original_model"])
    /\ ns' = BindAll(ns, {"peft_model"})
    /\ Advance
    /\ UNCHANGED <<nb, out, caught>>
    /\ UNCHANGED <<evals, gen, lists, results, csv, printed>>
    /\ UNCHANGED <<cloudVars, jobVars>>
    /\ UNCHANGED rlhfVars

\* peft_model_base = AutoModelForSeq2SeqLM.from_pretrained("google/flan-t5-base")
\* peft_model = PeftModel.from_pretrained(peft_model_base,
\*     './peft-dialogue-summary-checkpoint-from-s3/', is_trainable=False)
PeftLoadPeft ==
    /\ AtCell("peft", PeftCells, "load_peft")
    /\ \/ /\ heap' = Append(heap, ModelState("google/flan-t5-base", 0, "checkpoint"))
          /\ ref' = Bind(Bind(ref, "peft_model_base", Len(heap) + 1),
                         "peft_model", Len(heap) + 1)
          /\ ns' = BindAll(ns, {"peft_model_base", "tokenizer", "peft_model"})
          /\ Advance
       \/ /\ Raise("OSError")
          /\ UNCHANGED <<heap, ref, ns>>
    /\ UNCHANGED <<nb, out, caught>>
    /\ UNCHANGED <<evals, gen, lists, results, csv, printed>>
    /\ UNCHANGED <<cloudVars, jobVars>>
    /\ UNCHANGED rlhfVars

PeftHtml ==
    /\ HtmlCell("peft", PeftCells)
    /\ UNCHANGED peftVars
    /\ UNCHANGED rlhfVars
    /\ UNCHANGED <<cloudVars, jobVars>>

PeftNext ==
    \/ PeftBind
    \/ PeftLoadOriginal
    \/ PeftZeroShot
    \/ PeftTrainer
    \/ PeftTrain
    \/ PeftLoadInstruct
    \/ PeftQualitative
    \/ PeftQuantLoop
    \/ PeftRouge
    \/ PeftCsv
    \/ PeftImprovement
    \/ PeftGetPeftModel
    \/ PeftLoadPeft
    \/ PeftHtml

\* ------------------------------------------------------ the RLHF notebook

\* The code cells of the RLHF notebook, in order.
RlhfCells == <<
    [kind |-> "bind", line |-> 1499, binds |-> {"pipeline", "PPOTrainer", "torch"}],
    [kind |-> "bind", line |-> 1536,
     binds |-> {"model_name", "huggingface_dataset_name", "dataset_original"}],
    [kind |-> "build_dataset", line |-> 1551],
    [kind |-> "bind", line |-> 1607, binds |-> {}],
    [kind |-> "bind", line |-> 1619, binds |-> {}],
    [kind |-> "bind", line |-> 1629,
     binds |-> {"print_number_of_trainable_model_parameters"}],
    [kind |-> "load_peft", line |-> 1658],
    [kind |-> "value_head", line |-> 1687],
    [kind |-> "bind", line |-> 1720,
     binds |-> {"toxicity_model_name", "toxicity_tokenizer", "toxicity_model"}],
    [kind |-> "bind", line |-> 1743,
     binds |-> {"non_toxic_text", "toxicity_input_ids", "logits", "probabilities",
                "not_hate_index", "nothate_reward"}],
    [kind |-> "bind", line |-> 1769, binds |-> {"toxic_text"}],
    [kind |-> "bind", line |-> 1794,
     binds |-> {"device", "sentiment_pipe", "reward_logits_kwargs",
                "reward_probabilities_kwargs"}],
    [kind |-> "bind", line |-> 1826, binds |-> {}],
    [kind |-> "bind", line |-> 1837, binds |-> {}],
    [kind |-> "bind", line |-> 1860, binds |-> {"toxicity_evaluator"}],
    [kind |-> "bind", line |-> 1877, binds |-> {"toxicity_score"}],
    [kind |-> "bind", line |-> 1901, binds |-> {"evaluate_toxicity"}],
    [kind |-> "evaluate", line |-> 1949,
     binds |-> {"tokenizer", "mean_before_detoxification",
                "std_before_detoxification"}],
    [kind |-> "ref_model", line |-> 1986],
    [kind |-> "ppo_trainer", line |-> 2006],
    [kind |-> "ppo_loop", line |-> 2049],
    [kind |-> "evaluate", line |-> 2123,
     binds |-> {"mean_after_detoxification", "std_after_detoxification"}],
    [kind |-> "bind", line |-> 2138, binds |-> {"mean_improvement", "std_improvement"}],
    [kind |-> "bind", line |-> 2163,
     binds |-> {"batch_size", "compare_results", "df_batch", "prompt_tensors",
                "summary_tensors_ref", "summary_tensors"}],
    [kind |-> "bind", line |-> 2214,
     binds |-> {"df_compare_results", "df_compare_results_sorted"}],
    [kind |-> "html", line |-> 2240] >>

\* toxicity_model.config.id2label of the reward model, by class index.
id2label == <<"nothate", "hate">>

\* imports, dataset building, the reward model and its demonstrations, defs.
RlhfBind ==
    /\ AtCell("rlhf", RlhfCells, "bind")
    /\ ns' = BindAll(ns, RlhfCells[pc].binds)
    /\ Advance
    /\ UNCHANGED <<nb, out, caught>>
    /\ UNCHANGED <<peftVars, rlhfVars>>
    /\ UNCHANGED <<cloudVars, jobVars>>

\* dataset.filter(lambda x: len(x["dialogue"]) > input_min_text_length
\*                           and len(x["dialogue"]) <= input_max_text_length)
FilterInclusive(samples, min, max) ==
    SelectSeq(samples, LAMBDA x : x.len >= min /\ x.len <= max)

Filter(samples, min, max) ==
    SelectSeq(samples, LAMBDA x : x.len > min /\ x.len <= max)

\* tokenize(sample): sample["input_ids"] = tokenizer.encode(prompt);
\* sample["query"] = tokenizer.decode(sample["input_ids"])
tokenize(sample) ==
    [id |-> sample.id, len |-> sample.len,
     input_ids |-> <<"ids", sample.id>>, query |-> <<"text", sample.id>>]

\* n_test = ceil(test_size * n_samples) for test_size=0.2
TestSizeFloor(n_samples) == n_samples \div 5

TestSize(n_samples) == (n_samples + 4) \div 5

\* dataset.train_test_split(test_size=0.2, shuffle=False, seed=42):
\* train_indices = arange(n_train); test_indices = arange(n_train, n_train + n_test)
train_test_split(samples) ==
    LET n_test == TestSize(Len(samples))
        n_train == Len(samples) - n_test
    IN  [train |-> SubSeq(samples, 1, n_train),
         test |-> SubSeq(samples, n_train + 1, n_train + n_test)]

\* build_dataset(model_name, dataset_name, input_min_text_length,
\*               input_max_text_length): filter, tokenize each sample, split.
build_dataset(samples, min, max) ==
    LET filtered == Filter(samples, min, max)
    IN  train_test_split([i \in 1..Len(filtered) |-> tokenize(filtered[i])])

NoDataset == [train |-> <<>>, test |-> <<>>]

\* def build_dataset(...); dataset = build_dataset(model_name=model_name, ...,
\*     input_min_text_length=200, input_max_text_length=1000)
\* train_test_split raises ValueError when the train split would be empty.
RlhfBuildDataset ==
    /\ AtCell("rlhf", RlhfCells, "build_dataset")
    /\ LET splits == build_dataset(corpus, input_min_text_length,
                                   input_max_text_length)
       IN  IF splits.train = <<>>
           THEN /\ Raise("ValueError")
                /\ ns' = BindAll(ns, {"build_dataset"})
                /\ UNCHANGED dataset
           ELSE /\ dataset' = splits
                /\ ns' = BindAll(ns, {"build_dataset", "dataset"})
                /\ Advance
    /\ UNCHANGED <<nb, out, caught>>
    /\ UNCHANGED peftVars
    /\ UNCHANGED <<corpus, numBatches, iter, step, phase, prompt_tensors,
                   summary_tensors, logits, reward_tensors, stepArgs, stepsTaken,
                   ppoTrace, toxEvals>>
    /\ UNCHANGED <<cloudVars, jobVars>>

\* model = AutoModelForSeq2SeqLM.from_pretrained(model_name, ...)
\* peft_model = PeftModel.from_pretrained(model, <checkpoint>, is_trainable=True)
RlhfLoadPeft ==
    /\ AtCell("rlhf", RlhfCells, "load_peft")
    /\ \/ /\ heap' = Append(heap, ModelState("google/flan-t5-base", 0, "checkpoint"))
          /\ ref' = Bind(Bind(ref, "model", Len(heap) + 1), "peft_model", Len(heap) + 1)
          /\ ns' = BindAll(ns, {"lora_config", "model", "peft_model"})
          /\ Advance
       \/ /\ Raise("OSError")
          /\ UNCHANGED <<heap, ref, ns>>
    /\ UNCHANGED <<nb, out, caught>>
    /\ UNCHANGED <<evals, gen, lists, results, csv, printed>>
    /\ UNCHANGED rlhfVars
    /\ UNCHANGED <<cloudVars, jobVars>>

\* ppo_model = AutoModelForSeq2SeqLMWithValueHead.from_pretrained(peft_model, ...):
\* the wrapper holds peft_model itself and adds the value head v_head.
RlhfValueHead ==
    /\ AtCell("rlhf", RlhfCells, "value_head")
    /\ heap' = [heap EXCEPT ![ref["peft_model"]].vhead = TRUE]
    /\ ref' = Bind(ref, "ppo_model", ref["peft_model"])
    /\ ns' = BindAll(ns, {"ppo_model"})
    /\ Advance
    /\ UNCHANGED <<nb, out, caught>>
    /\ UNCHANGED <<evals, gen, lists, results, csv, printed>>
    /\ UNCHANGED rlhfVars
    /\ UNCHANGED <<cloudVars, jobVars>>

\* evaluate_toxicity(model, toxicity_evaluator, tokenizer, dataset, num_samples):
\* for i, sample in enumerate(dataset): if i > num_samples: break; generate and
\* score the sample. Returns the mean and the std of the scores.
evaluate_toxicity(line, model, split, n) ==
    [line |-> line, model |-> model, object |-> ref[model], state |-> Deref(model),
     split |-> split, num_samples |-> n,
     scored |-> [i \in 1..(IF n + 1 < Len(dataset[split])
                           THEN n + 1 ELSE Len(dataset[split]))
                    |-> dataset[split][i].id],
     steps |-> stepsTaken]

\* RlhfEvaluate with the evaluation run a second time in the same cell.
RlhfEvaluateTwice ==
    /\ AtCell("rlhf", RlhfCells, "evaluate")
    /\ toxEvals' = Append(Append(toxEvals,
          evaluate_toxicity(RlhfCells[pc].line, "ppo_model", "test", num_samples)),
          evaluate_toxicity(RlhfCells[pc].line, "ppo_model", "test", num_samples))
    /\ ns' = BindAll(ns, RlhfCells[pc].binds)
    /\ Advance
    /\ UNCHANGED <<nb, out, caught>>
    /\ UNCHANGED peftVars
    /\ UNCHANGED <<corpus, dataset, numBatches, iter, step, phase, prompt_tensors, summary_tensors,
                   logits, reward_tensors, stepArgs, stepsTaken, ppoTrace>>
    /\ UNCHANGED <<cloudVars, jobVars>>

\* mean, std = evaluate_toxicity(model=ppo_model, ..., dataset=dataset["test"],
\*                               num_samples=10)
RlhfEvaluate ==
    /\ AtCell("rlhf", RlhfCells, "evaluate")
    /\ toxEvals' = Append(toxEvals,
          evaluate_toxicity(RlhfCells[pc].line, "ppo_model", "test", num_samples))
    /\ ns' = BindAll(ns, RlhfCells[pc].binds)
    /\ Advance
    /\ UNCHANGED <<nb, out, caught>>
    /\ UNCHANGED peftVars
    /\ UNCHANGED <<corpus, dataset, numBatches, iter, step, phase, prompt_tensors, summary_tensors,
                   logits, reward_tensors, stepArgs, stepsTaken, ppoTrace>>
    /\ UNCHANGED <<cloudVars, jobVars>>

\* ref_model = create_reference_model(ppo_model): a frozen deep copy.
RlhfRefModel ==
    /\ AtCell("rlhf", RlhfCells, "ref_model")
    /\ NewModel("ref_model", Deref("ppo_model"))
    /\ ns' = BindAll(ns, {"ref_model"})
    /\ Advance
    /\ UNCHANGED <<nb, out, caught>>
    /\ UNCHANGED <<evals, gen, lists, results, csv, printed>>
    /\ UNCHANGED rlhfVars
    /\ UNCHANGED <<cloudVars, jobVars>>

\* ppo_trainer = PPOTrainer(config, model=ppo_model, ref_model=ref_model,
\*                          dataset=dataset["train"], data_collator=collator)
\* Its dataloader yields the full batches of the train split (drop_last=True).
RlhfPpoTrainer ==
    /\ AtCell("rlhf", RlhfCells, "ppo_trainer")
    /\ ref' = Bind(ref, "ppo_trainer", ref["ppo_model"])
    /\ ns' = BindAll(ns, {"learning_rate", "max_ppo_epochs", "mini_batch_size",
                          "batch_size", "config", "collator", "ppo_trainer"})
    /\ numBatches' = Len(dataset.train) \div BatchLen
    /\ Advance
    /\ UNCHANGED <<nb, out, caught>>
    /\ UNCHANGED <<heap, evals, gen, lists, results, csv, printed>>
    /\ UNCHANGED <<corpus, dataset, iter, step, phase, prompt_tensors,
                   summary_tensors, logits, reward_tensors, stepArgs, stepsTaken,
                   ppoTrace, toxEvals>>
    /\ UNCHANGED <<cloudVars, jobVars>>

\* The PPO cell up to the for statement: output_length_sampler,
\* generation_kwargs, reward_kwargs, max_ppo_steps.
PpoStart ==
    /\ AtCell("rlhf", RlhfCells, "ppo_loop")
    /\ phase = "idle"
    /\ phase' = "head"
    /\ ns' = BindAll(ns, {"output_min_length", "output_max_length",
                          "output_length_sampler", "generation_kwargs",
                          "reward_kwargs", "max_ppo_steps"})
    /\ UNCHANGED <<nb, pc, halted, raised, out, caught>>
    /\ UNCHANGED peftVars
    /\ UNCHANGED <<corpus, dataset, numBatches, iter, step, prompt_tensors, summary_tensors, logits,
                   reward_tensors, stepArgs, stepsTaken, ppoTrace, toxEvals>>
    /\ UNCHANGED <<cloudVars, jobVars>>

\* batch["query"] / batch["input_ids"] of the batch the dataloader yields.
Batch(index) == [i \in 1..BatchLen |-> [batch |-> index, query |-> i]]

\* A variant of the loop head without the break on max_ppo_steps.
PpoNextBatchNoBreak ==
    /\ AtCell("rlhf", RlhfCells, "ppo_loop")
    /\ phase = "head"
    /\ IF iter < numBatches
       THEN /\ iter' = iter + 1
            /\ step' = iter
            /\ phase' = "generate"
            /\ prompt_tensors' = Batch(iter)
            /\ summary_tensors' = <<>>
            /\ ppoTrace' = <<>>
            /\ UNCHANGED <<pc, halted, raised>>
       ELSE /\ phase' = "idle"
            /\ Advance
            /\ UNCHANGED <<iter, step, prompt_tensors, summary_tensors, ppoTrace>>
    /\ UNCHANGED <<nb, ns, out, caught>>
    /\ UNCHANGED peftVars
    /\ UNCHANGED <<corpus, dataset, numBatches, logits, reward_tensors, stepArgs,
                   stepsTaken, toxEvals>>
    /\ UNCHANGED <<cloudVars, jobVars>>

\* for step, batch in enumerate(ppo_trainer.dataloader):
\*     if step >= max_ppo_steps: break
\*     prompt_tensors = batch["input_ids"]; summary_tensors = []
\* The loop ends when the dataloader is exhausted or at the break.
PpoNextBatch ==
    /\ AtCell("rlhf", RlhfCells, "ppo_loop")
    /\ phase = "head"
    /\ IF iter < numBatches
       THEN /\ iter' = iter + 1
            /\ step' = iter
            /\ IF iter >= max_ppo_steps
               THEN /\ phase' = "idle"
                    /\ Advance
                    /\ UNCHANGED <<prompt_tensors, summary_tensors, ppoTrace>>
               ELSE /\ phase' = "generate"
                    /\ prompt_tensors' = Batch(iter)
                    /\ summary_tensors' = <<>>
                    /\ ppoTrace' = <<>>
                    /\ UNCHANGED <<pc, halted, raised>>
       ELSE /\ phase' = "idle"
            /\ Advance
            /\ UNCHANGED <<iter, step, prompt_tensors, summary_tensors, ppoTrace>>
    /\ UNCHANGED <<nb, ns, out, caught>>
    /\ UNCHANGED peftVars
    /\ UNCHANGED <<corpus, dataset, numBatches, logits, reward_tensors, stepArgs, stepsTaken, toxEvals>>
    /\ UNCHANGED <<cloudVars, jobVars>>

\* for prompt_tensor in prompt_tensors:
\*     summary = ppo_trainer.generate(prompt_tensor, **generation_kwargs)
\*     summary_tensors.append(summary.squeeze()[-max_new_tokens:])
PpoGenerate ==
    /\ AtCell("rlhf", RlhfCells, "ppo_loop")
    /\ phase = "generate"
    /\ Len(summary_tensors) < Len(prompt_tensors)
    /\ summary_tensors' = Append(summary_tensors,
          [response_to |-> prompt_tensors[Len(summary_tensors) + 1],
           weights |-> stepsTaken])
    /\ ppoTrace' = Append(ppoTrace, "generate")
    /\ UNCHANGED kernelVars
    /\ UNCHANGED peftVars
    /\ UNCHANGED <<corpus, dataset, numBatches, iter, step, phase, prompt_tensors, logits,
                   reward_tensors, stepArgs, stepsTaken, toxEvals>>
    /\ UNCHANGED <<cloudVars, jobVars>>

\* sentiment_pipe(texts, top_k=None, function_to_apply="none"): for each text
\* the scores of all the classes, raw, as a list of {label, score} that the
\* pipeline sorts by score, highest first (a stable sort of the two classes).
sentiment_pipe(texts_logits) ==
    [t \in 1..Len(texts_logits) |->
        LET all == [i \in 1..Len(id2label) |->
                       [label |-> id2label[i], score |-> texts_logits[t][i]]]
        IN  IF all[2].score > all[1].score
            THEN <<all[2], all[1]>>
            ELSE all]

\* reward_tensors = [torch.tensor(reward[not_hate_index]["score"])
\*                   for reward in rewards]
RewardTensors(rewards) ==
    [t \in 1..Len(rewards) |-> rewards[t][not_hate_index + 1].score]

\* PpoScore with the rewards computed as soon as one response exists.
PpoScoreEarly ==
    /\ AtCell("rlhf", RlhfCells, "ppo_loop")
    /\ phase = "generate"
    /\ Len(summary_tensors) >= 1
    /\ \E l \in [1..Len(summary_tensors) -> [1..Len(id2label) -> LogitValues]] :
          /\ logits' = l
          /\ reward_tensors' = RewardTensors(sentiment_pipe(l))
    /\ phase' = "step"
    /\ ppoTrace' = Append(ppoTrace, "score")
    /\ UNCHANGED kernelVars
    /\ UNCHANGED peftVars
    /\ UNCHANGED <<corpus, dataset, numBatches, iter, step, prompt_tensors, summary_tensors,
                   stepArgs, stepsTaken, toxEvals>>
    /\ UNCHANGED <<cloudVars, jobVars>>

\* batch["response"] = [decode(r) for r in summary_tensors]
\* query_response_pairs = [q + r for q, r in zip(batch["query"], batch["response"])]
\* rewards = sentiment_pipe(query_response_pairs, **reward_kwargs)
\* reward_tensors = [...]
\* The reward model's logits for a pair are whatever the pair's text yields.
PpoScore ==
    /\ AtCell("rlhf", RlhfCells, "ppo_loop")
    /\ phase = "generate"
    /\ Len(summary_tensors) = Len(prompt_tensors)
    /\ \E l \in [1..Len(summary_tensors) -> [1..Len(id2label) -> LogitValues]] :
          /\ logits' = l
          /\ reward_tensors' = RewardTensors(sentiment_pipe(l))
    /\ phase' = "step"
    /\ ppoTrace' = Append(ppoTrace, "score")
    /\ UNCHANGED kernelVars
    /\ UNCHANGED peftVars
    /\ UNCHANGED <<corpus, dataset, numBatches, iter, step, prompt_tensors, summary_tensors,
                   stepArgs, stepsTaken, toxEvals>>
    /\ UNCHANGED <<cloudVars, jobVars>>

\* stats = ppo_trainer.step(prompt_tensors, summary_tensors, reward_tensors)
\* ppo_trainer.log_stats(stats, batch, reward_tensors); print(...)
\* One optimization step on the adapters and the value head of ppo_model.
PpoStep ==
    /\ AtCell("rlhf", RlhfCells, "ppo_loop")
    /\ phase = "step"
    /\ stepArgs' = [queries |-> prompt_tensors, responses |-> summary_tensors,
                    scores |-> reward_tensors]
    /\ stepsTaken' = stepsTaken + 1
    /\ heap' = [heap EXCEPT ![ref["ppo_trainer"]].lora = "trained"]
    /\ ppoTrace' = Append(ppoTrace, "step")
    /\ phase' = "head"
    /\ UNCHANGED kernelVars
    /\ UNCHANGED <<ref, evals, gen, lists, results, csv, printed>>
    /\ UNCHANGED <<corpus, dataset, numBatches, iter, step, prompt_tensors, summary_tensors, logits,
                   reward_tensors, toxEvals>>
    /\ UNCHANGED <<cloudVars, jobVars>>

RlhfHtml ==
    /\ HtmlCell("rlhf", RlhfCells)
    /\ UNCHANGED <<peftVars, rlhfVars>>
    /\ UNCHANGED <<cloudVars, jobVars>>

RlhfNext ==
    \/ RlhfBind
    \/ RlhfBuildDataset
    \/ RlhfLoadPeft
    \/ RlhfValueHead
    \/ RlhfEvaluate
    \/ RlhfRefModel
    \/ RlhfPpoTrainer
    \/ PpoStart
    \/ PpoNextBatch
    \/ PpoGenerate
    \/ PpoScore
    \/ PpoStep
    \/ RlhfHtml

\* ------------------------------------------------------------ specification

vars == <<nb, pc, halted, ns, out, caught, raised,
          defaultBucket, store, storeLog, installs, s3copies, uploads,
          job, waited, reads, local,
          heap, ref, evals, gen, lists, results, csv, printed,
          numBatches, iter, step, phase, prompt_tensors, summary_tensors,
          logits, reward_tensors, stepArgs, stepsTaken, ppoTrace, toxEvals,
          corpus, dataset>>

\* A fresh kernel runs the setup notebook in an account whose store is empty.
InitKernel ==
    /\ pc = 1
    /\ halted = FALSE
    /\ ns = Empty
    /\ out = <<>>
    /\ caught = {}
    /\ raised = "none"

\* Nothing stored, installed, copied or uploaded, and no job submitted.
InitCloud ==
    /\ store = Empty
    /\ storeLog = <<>>
    /\ installs = {}
    /\ s3copies = {}
    /\ uploads = {}
    /\ job = NoJob
    /\ waited = FALSE
    /\ reads = {}
    /\ local = Empty

\* No model loaded, nothing generated or scored.
InitModels ==
    /\ heap = <<>>
    /\ ref = Empty
    /\ evals = {}
    /\ gen = Empty
    /\ lists = Empty
    /\ results = Empty
    /\ csv = Empty
    /\ printed = {}

\* The PPO loop has not run and toxicity has not been evaluated.
InitPpo ==
    /\ iter = 0
    /\ step = 0
    /\ phase = "idle"
    /\ prompt_tensors = <<>>
    /\ summary_tensors = <<>>
    /\ logits = <<>>
    /\ reward_tensors = <<>>
    /\ stepArgs = [queries |-> <<>>, responses |-> <<>>, scores |-> <<>>]
    /\ stepsTaken = 0
    /\ ppoTrace = <<>>
    /\ toxEvals = <<>>
    /\ numBatches = 0
    /\ dataset = NoDataset

InitPipeline ==
    /\ nb = "setup"
    /\ InitKernel
    /\ defaultBucket \in BucketNames
    /\ InitCloud
    /\ InitModels
    /\ InitPpo
    /\ corpus = <<>>

\* A fresh kernel runs the PEFT notebook; it uses neither the store nor a job.
InitPeft ==
    /\ nb = "peft"
    /\ InitKernel
    /\ defaultBucket = CHOOSE b \in BucketNames : TRUE
    /\ InitCloud
    /\ InitModels
    /\ InitPpo
    /\ corpus = <<>>

\* A corpus of n dialogues whose lengths the filter of build_dataset accepts.
Corpus(n) == [i \in 1..n |-> [id |-> i, len |-> input_max_text_length]]

\* The corpus sizes of the RLHF runs: from no dialogue at all to more train
\* batches than max_ppo_steps and more test records than num_samples.
CorpusSizes == {0, 1} \cup {5 * 2^k : k \in 0..MaxDoublings}

\* A fresh kernel runs the RLHF notebook, on a corpus of any of these sizes.
InitRlhf ==
    /\ nb = "rlhf"
    /\ InitKernel
    /\ defaultBucket = CHOOSE b \in BucketNames : TRUE
    /\ InitCloud
    /\ InitModels
    /\ InitPpo
    /\ corpus \in {Corpus(n) : n \in CorpusSizes}

\* The dialogue lengths at the two limits of the filter of build_dataset.
DialogueLengths ==
    {input_min_text_length, input_min_text_length + 1,
     input_max_text_length, input_max_text_length + 1}

\* A fresh kernel runs the RLHF notebook up to its dataset, on an arbitrary
\* corpus of at most MaxRecords dialogues.
InitBuildDataset ==
    /\ nb = "rlhf"
    /\ InitKernel
    /\ defaultBucket = CHOOSE b \in BucketNames : TRUE
    /\ InitCloud
    /\ InitModels
    /\ InitPpo
    /\ \E n \in 0..MaxRecords : \E lens \in [1..n -> DialogueLengths] :
          corpus = [i \in 1..n |-> [id |-> i, len |-> lens[i]]]

\* The position of the cell at the given line in the data-quality notebook.
DataQualityCellAt(line) ==
    CHOOSE i \in 1..Len(DataQualityCells) : DataQualityCells[i].line = line

\* The contents a report directory may have: up to MaxFiles CSV files of up to
\* MaxRows rows each, in the order glob lists them.
Directories ==
    UNION { { [f \in 1..n |-> CsvFile(f, rows[f])] : rows \in [1..n -> 0..MaxRows] }
            : n \in 0..MaxFiles }

\* A kernel of the data-quality notebook at the cell that defines load_dataset,
\* over a local directory whose report directories hold any such contents
\* (the directory outlives the runs of the notebook).
InitLoadDataset ==
    /\ nb = "dq"
    /\ pc = DataQualityCellAt(425)
    /\ halted = FALSE
    /\ ns = Empty
    /\ out = <<>>
    /\ caught = {}
    /\ raised = "none"
    /\ defaultBucket = CHOOSE b \in BucketNames : TRUE
    /\ store = Empty
    /\ storeLog = <<>>
    /\ installs = {}
    /\ s3copies = {}
    /\ uploads = {}
    /\ job = NoJob
    /\ waited = FALSE
    /\ reads = {}
    /\ \E files \in Directories : \E dirs \in SUBSET ReportDirs :
          local = [d \in dirs |-> files]
    /\ InitModels
    /\ InitPpo
    /\ corpus = <<>>

Init == InitPipeline \/ InitPeft \/ InitRlhf

NextPipeline == SetupNext \/ DataQualityNext

Next == NextPipeline \/ PeftNext \/ RlhfNext

Spec == Init /\ [][Next]_vars

\* The setup notebook followed by the data-quality notebook.
SpecPipeline == InitPipeline /\ [][NextPipeline]_vars

\* The PEFT notebook.
SpecPeft == InitPeft /\ [][PeftNext]_vars

\* The RLHF notebook.
SpecRlhf == InitRlhf /\ [][RlhfNext]_vars

\* The RLHF notebook with the kernel running each cell to its end.
SpecRlhfFair == SpecRlhf /\ WF_vars(RlhfNext)

\* The cells of the data-quality notebook that load the reports.
NextLoadDataset == DataQualityAssign \/ DataQualityLoad \/ DataQualityHtml

SpecLoadDataset == InitLoadDataset /\ [][NextLoadDataset]_vars

\* The cells of the RLHF notebook that build the dataset.
NextBuildDataset == RlhfBind \/ RlhfBuildDataset

SpecBuildDataset == InitBuildDataset /\ [][NextBuildDataset]_vars

\* ------------------------------------------------------------------ claims

Flag == "setup_dependencies_passed"

\* The handlers of the notebooks: the construct that caught, by notebook and call.
FlagHandler == [nb |-> "dq", line |-> 103, call |-> Flag]
RoleHandler == [nb |-> "setup", line |-> 399, call |-> "get_execution_role"]

\* C1 (as stated): whatever exception notebook code catches, it is the NameError
\* of the existence check for setup_dependencies_passed; nothing else is caught
\* or suppressed.
C1_OnlyTheFlagCheckCatches ==
    \A c \in caught : c = FlagHandler

\* C1 (amended): the exceptions notebook code catches are those of three
\* constructs: the existence check for setup_dependencies_passed, the bare
\* try/except around sagemaker.get_execution_role() of the setup notebook, and
\* the JavaScript try/catch of a notebook's closing %%html cell; the two Python
\* handlers print their text.
C1_HandlersAreFlagRoleAndHtml ==
    /\ \A c \in caught :
          \/ c = FlagHandler
          \/ c = RoleHandler
          \/ c.call = "els[0].click"
    /\ (FlagHandler \in caught /\ nb = "dq") => out = ErrorBanner
    /\ (RoleHandler \in caught /\ nb = "setup") => Len(out) = 1

C1_Witness ==
    /\ RoleHandler \in caught
    /\ FlagHandler \in caught
    /\ nb = "dq"
    /\ out = ErrorBanner

\* C2: the existence check of the data-quality notebook never raises and changes
\* no variable: it prints the three-line banner exactly when the flag was not
\* restored from the store, prints nothing when it was, and the run goes on.
C2_FlagCheckOnlyPrints ==
    [][ (nb = "dq" /\ ~halted /\ pc \in 1..Len(DataQualityCells)
            /\ DataQualityCells[pc].kind = "flag_check")
        => /\ ~halted'
           /\ pc' = pc + 1
           /\ ns' = ns
           /\ store' = store
           /\ out' = IF Bound(store, Flag) THEN out ELSE out \o ErrorBanner ]_vars

C2_Witness ==
    /\ nb = "dq"
    /\ ~halted
    /\ DataQualityCells[pc].kind = "print_flag"
    /\ ~Bound(store, Flag)
    /\ out = ErrorBanner

\* C3: the job is submitted asynchronously, and every cell that lists, copies
\* or loads the job's S3 output runs after running_processor.wait() returned,
\* with the job in a terminal state; what is read while the job is in progress
\* is its description only.
C3_OutputReadOnlyAfterWait ==
    /\ \A r \in reads :
          r.kind = "output" => (r.waited /\ r.status \in {"Completed", "Stopped"})
    /\ \A r \in reads : r.status = "InProgress" => r.kind = "describe"
    /\ \A r \in reads : r.kind \in {"describe", "output"}
    /\ (nb = "dq" /\ ~halted /\ pc \in 1..Len(DataQualityCells)
          /\ DataQualityCells[pc].kind \in {"ls_output", "cp_output", "load"})
          => (waited /\ job.status \in Terminal)

C3_Witness ==
    /\ \E r \in reads : r.kind = "describe" /\ r.status = "InProgress"
    /\ \E r \in reads : r.kind = "output" /\ r.line = 496

\* The lines of the install cells of the setup notebook.
InstallLines ==
    {SetupCells[i].line : i \in {j \in 1..Len(SetupCells) :
                                    SetupCells[j].kind = "install"}}

\* C9: whenever the flag is in the store it is True, every install step, the
\* three review-file copies and the two uploads have been executed, the four
\* other variables are in the store, and the flag is the last variable stored.
C9_FlagStoredLast ==
    Bound(store, Flag) =>
        /\ store[Flag] = True
        /\ InstallLines \subseteq {i.line : i \in installs}
        /\ {c.file : c \in s3copies} = ReviewFiles
        /\ {u.file : u \in uploads} = DialogueFiles
        /\ {"s3_public_path_tsv", "s3_private_path_tsv", "raw_input_data_s3_uri",
            "model_checkpoint"} \subseteq DOMAIN store
        /\ storeLog[Len(storeLog)] = Flag

C9_Witness ==
    /\ nb = "setup"
    /\ Bound(store, Flag)
    /\ Len(storeLog) = 6

\* A path without its trailing slashes.
RECURSIVE StripSlash(_)
StripSlash(path) ==
    IF path # <<>> /\ path[Len(path)] = "/"
    THEN StripSlash(SubSeq(path, 1, Len(path) - 1))
    ELSE path

\* The bucket and the key prefix an S3 URI s3://<bucket>/<prefix> denotes.
S3Location(uri) ==
    [scheme |-> SubSeq(uri, 1, 3),
     bucket |-> uri[4],
     prefix |-> StripSlash(SubSeq(uri, 5, Len(uri)))]

\* C10: the input location of the data-quality job denotes the bucket and the
\* prefix the setup notebook copied the three review files to, which is the
\* stored s3_private_path_tsv, whatever the default bucket.
C10_JobInputIsTheCopiedPrefix ==
    (nb = "dq" /\ Bound(ns, "s3_input_data")) =>
        /\ \A c \in s3copies :
              S3Location(c.dst) = S3Location(ns["s3_input_data"])
        /\ Bound(store, "s3_private_path_tsv") =>
              S3Location(store["s3_private_path_tsv"])
                 = S3Location(ns["s3_input_data"])
        /\ job.status # "none" => job.input = ns["s3_input_data"]
        /\ S3Location(ns["s3_input_data"]).bucket = defaultBucket

C10_Witness ==
    /\ nb = "dq"
    /\ job.status = "Completed"
    /\ {c.file : c \in s3copies} = ReviewFiles
    /\ Bound(store, "s3_private_path_tsv")

\* The calls of one complete PPO iteration on a batch of n prompts.
ExpectedTrace(n) ==
    [i \in 1..(n + 2) |->
        IF i <= n THEN "generate" ELSE IF i = n + 1 THEN "score" ELSE "step"]

\* C4: in every iteration of the PPO loop a response is generated for every
\* prompt of the batch before any reward is computed, the rewards of all the
\* pairs are computed before ppo_trainer.step is called, and ppo_trainer.step
\* is called exactly once per iteration.
C4_GenerateScoreStep ==
    /\ Len(ppoTrace) <= Len(prompt_tensors) + 2
    /\ ppoTrace = SubSeq(ExpectedTrace(Len(prompt_tensors)), 1, Len(ppoTrace))
    /\ phase = "step" =>
          /\ Len(summary_tensors) = Len(prompt_tensors)
          /\ Len(reward_tensors) = Len(prompt_tensors)
          /\ \A i \in 1..Len(prompt_tensors) :
                summary_tensors[i].response_to = prompt_tensors[i]
    /\ phase \in {"generate", "step"} => stepsTaken = step
    /\ phase = "head" => stepsTaken = iter
    /\ (phase = "head" /\ iter > 0) =>
          /\ ppoTrace = ExpectedTrace(BatchLen)
          /\ stepArgs = [queries |-> prompt_tensors, responses |-> summary_tensors,
                         scores |-> reward_tensors]

\* Two iterations of the loop are complete.
C4_Witness ==
    /\ phase = "head"
    /\ iter = 2
    /\ stepsTaken = 2
    /\ ppoTrace = ExpectedTrace(BatchLen)
    /\ Len(stepArgs.scores) = BatchLen

\* The index of the 'nothate' class in the reward model's output layer.
NotHateClass == CHOOSE i \in 1..Len(id2label) : id2label[i] = "nothate"

\* C5 (as stated): the reward passed to ppo_trainer.step for each pair is the
\* reward model's raw score of the 'nothate' class for that pair, whichever of
\* the two classes scores higher.
C5_RewardIsNotHateScore ==
    (phase = "head" /\ stepsTaken > 0) =>
        \A i \in 1..Len(stepArgs.scores) :
            stepArgs.scores[i] = logits[i][NotHateClass]

\* The position of the cell at the given line in the RLHF notebook.
RlhfCellAt(line) == CHOOSE i \in 1..Len(RlhfCells) : RlhfCells[i].line = line

\* C6: toxicity is evaluated exactly once before the first PPO step and
\* exactly once after the last one, both times on the object ppo_model names,
\* on the test split and with the same num_samples, and that object carries
\* the value head from before the first evaluation.
C6_ToxicityEvaluatedBeforeAndAfter ==
    nb = "rlhf" =>
        /\ Len(toxEvals) <= 2
        /\ \A i \in 1..Len(toxEvals) :
              /\ toxEvals[i].model = "ppo_model"
              /\ toxEvals[i].object = ref["ppo_model"]
              /\ toxEvals[i].object = toxEvals[1].object
              /\ toxEvals[i].split = "test"
              /\ toxEvals[i].num_samples = toxEvals[1].num_samples
              /\ toxEvals[i].state.vhead
        /\ stepsTaken > 0 => Len(toxEvals) >= 1
        /\ Len(toxEvals) >= 1 => toxEvals[1].steps = 0
        /\ Len(toxEvals) = 2 =>
              /\ toxEvals[2].steps = stepsTaken
              /\ phase = "idle"
              /\ pc > RlhfCellAt(2049)
        /\ (pc > RlhfCellAt(1949)) => Len(toxEvals) >= 1
        /\ (pc > RlhfCellAt(2123)) => Len(toxEvals) = 2

\* Both evaluations are done, with max_ppo_steps PPO steps between them.
C6_Witness ==
    /\ nb = "rlhf"
    /\ Len(toxEvals) = 2
    /\ toxEvals[1].steps = 0
    /\ toxEvals[2].steps = max_ppo_steps
    /\ toxEvals[2].state # toxEvals[1].state

\* C7 (as stated): whatever is printed or scored under 'ORIGINAL MODEL' was
\* generated by the pretrained model exactly as loaded.
C7_OriginalModelIsPretrained ==
    \A e \in evals : e.label = "ORIGINAL MODEL" => e.model = Pretrained

\* The ROUGE score of the human baseline summaries against the references.
HumanBaselineScore ==
    Rouge(lists["human_baseline"],
          References(lists["human_baseline"], lists["human_baseline"]))

\* C8 (as stated): the values printed under '... of INSTRUCT MODEL over HUMAN
\* BASELINE' and '... of PEFT MODEL over HUMAN BASELINE' are the named model's
\* score minus the human baseline's score, for each ROUGE metric.
C8_ImprovementOverHumanBaseline ==
    (/\ nb = "peft"
     /\ pc > 1
     /\ pc <= Len(PeftCells) + 1
     /\ ~halted
     /\ PeftCells[pc - 1].kind = "improvement"
     /\ PeftCells[pc - 1].over = "original_model") =>
        \A p \in printed :
            p.line = PeftCells[pc - 1].line =>
                p.values = Improvement(results[PeftCells[pc - 1].of],
                                       HumanBaselineScore)

\* The exceptions with which the kernel answers the read of an unbound name:
\* NameError for an expression, UsageError for %store <name>.
UnboundNameErrors == {"NameError", "UsageError"}

\* C11 (as stated): a notebook reads only names it has assigned, imported or
\* restored from the store earlier in the run; no cell reads a name that is
\* still unassigned when it runs.
C11_NoReadOfUnassignedName ==
    /\ raised \notin UnboundNameErrors
    /\ (nb = "dq" /\ Bound(ns, Flag)) => (Bound(store, Flag) /\ ns[Flag] = store[Flag])

\* The requests that install a package (the others remove one).
InstallRequests == {i \in installs : i.op \in {"pip install", "conda install"}}

FirstN(seq, k) == SubSeq(seq, 1, IF k < Len(seq) THEN k ELSE Len(seq))

\* C13 (as stated): evaluate_toxicity with num_samples = n generates and
\* scores exactly the first min(n, |dataset|) records, one score per record.
C13_ScoresFirstNumSamples ==
    \A e \in 1..Len(toxEvals) :
        LET first == FirstN(dataset[toxEvals[e].split], toxEvals[e].num_samples)
        IN  toxEvals[e].scored = [i \in 1..Len(first) |-> first[i].id]

\* The PPO loop has ended and the cells after it are running or have run.
PpoLoopDone == nb = "rlhf" /\ phase = "idle" /\ pc > RlhfCellAt(2049)

\* No more than max_ppo_steps steps, none beyond the batches there are, and
\* nothing generated or scored for a batch of index max_ppo_steps or more.
PpoLoopBounded ==
    /\ stepsTaken <= max_ppo_steps
    /\ stepsTaken <= numBatches
    /\ PpoLoopDone =>
          stepsTaken = IF max_ppo_steps < numBatches THEN max_ppo_steps
                       ELSE numBatches
    /\ phase \in {"generate", "step"} => step < max_ppo_steps
    /\ \A i \in 1..Len(summary_tensors) :
          summary_tensors[i].response_to.batch < max_ppo_steps
    /\ \A i \in 1..Len(stepArgs.queries) :
          stepArgs.queries[i].batch < max_ppo_steps

\* C14: the PPO loop performs exactly min(max_ppo_steps, batches of the
\* dataloader) optimizer steps and then ends; ppo_trainer.step is never called
\* more than max_ppo_steps = 10 times and nothing is generated or scored for a
\* batch whose index is max_ppo_steps or more.
C14_PpoLoopStepsAndEnds ==
    /\ []PpoLoopBounded
    /\ (phase = "head") ~> PpoLoopDone

\* The loop was ended by the break, with batches left in the dataloader.
C14_Witness ==
    /\ PpoLoopDone
    /\ numBatches > max_ppo_steps
    /\ stepsTaken = max_ppo_steps
    /\ step = max_ppo_steps

\* What the 'Setup Output Data' cell printed after 'Processing job name:'.
PrintedJobName ==
    IF \E i \in 1..Len(out) : out[i] = "Processing job name:"
    THEN LET i == CHOOSE k \in 1..Len(out) : out[k] = "Processing job name:"
         IN  SubSeq(out, i + 1, Len(out))
    ELSE <<>>

\* C15 (as stated): the name printed as 'Processing job name' is the name of
\* the job processor.run submits, and that job is the one looked up with
\* from_processing_name and waited on.
C15_PrintedNameIsJobName ==
    (nb = "dq" /\ job.status # "none") =>
        /\ PrintedJobName = job.name
        /\ Bound(ns, "running_processor") => ns["running_processor"] = job.name

\* C16: the location given to the Spark job after 's3_output_analyze_data' is
\* the location the later cells list and copy from, and s3_output_analyze_data,
\* output_prefix and bucket keep their values from the submission on.
C16_OutputInspectedWhereJobWrote ==
    (nb = "dq" /\ job.status # "none") =>
        /\ ns["s3_output_analyze_data"] = job.output
        /\ s3_output_analyze_data_format(ns["bucket"][1], ns["output_prefix"])
              = job.output
        /\ \A r \in reads :
              r.line \in {384, 406} => StripSlash(r.from) = job.output
        /\ (\E r \in reads : r.line = 406) => local = job.written

\* The job completed and its output was listed and copied.
C16_Witness ==
    /\ nb = "dq"
    /\ job.status = "Completed"
    /\ \E r \in reads : r.line = 384 /\ r.from = job.output \o <<"/">>
    /\ \E r \in reads : r.line = 406 /\ r.from = job.output
    /\ DOMAIN local = ReportDirs

\* The rows of a sequence of CSV files, their header lines not counted.
RECURSIVE RowCount(_)
RowCount(files) ==
    IF files = <<>> THEN 0 ELSE (Len(Head(files)) - 1) + RowCount(Tail(files))

\* The load cells of the data-quality notebook.
LoadCells == {i \in 1..Len(DataQualityCells) : DataQualityCells[i].kind = "load"}

\* C17: load_dataset returns the rows of every file matching <path>/*.csv,
\* indexed 0..n-1: as many rows as the files hold together, each of them once;
\* when no file matches it raises instead of returning an empty table.
C17_LoadDatasetConcatenatesOrRaises ==
    nb = "dq" =>
      \A c \in LoadCells :
        LET name == DataQualityCells[c].name
            files == glob(DataQualityCells[c].dir)
        IN  /\ Bound(ns, name) =>
                  /\ files # <<>>
                  /\ Len(ns[name]) = RowCount(files)
                  /\ \A i \in 1..Len(ns[name]) :
                        /\ ns[name][i].index = i - 1
                        /\ ns[name][i].data.row >= 1
                  /\ \A f \in 1..Len(files) : \A r \in 2..Len(files[f]) :
                        Cardinality({i \in 1..Len(ns[name]) :
                                        ns[name][i].data = files[f][r]}) = 1
            /\ (pc > c) => Bound(ns, name)
            /\ (pc = c /\ halted) => (raised = "ValueError" /\ files = <<>>)
            /\ (pc = c /\ files = <<>>) => ~Bound(ns, name)

\* A report of several files, one of them with more than one row, was loaded.
C17_Witness ==
    /\ nb = "dq"
    /\ Bound(ns, "df_constraint_suggestions")
    /\ Len(glob("constraint-suggestions")) >= 2
    /\ Len(ns["df_constraint_suggestions"]) >= 3

\* The records build_dataset returned: the train split, then the test split.
Returned == dataset.train \o dataset.test

\* The dialogues of the corpus whose length is within the limits of the call.
WithinLimits ==
    {j \in 1..Len(corpus) :
        /\ corpus[j].len > input_min_text_length
        /\ corpus[j].len <= input_max_text_length}

\* C18: every record build_dataset returns has a dialogue longer than
\* input_min_text_length and at most input_max_text_length characters long and
\* carries input_ids and query, and every dialogue of the corpus within these
\* limits is among the records returned.
C18_ReturnsTheDialoguesWithinLimits ==
    Bound(ns, "dataset") =>
        /\ \A i \in 1..Len(Returned) :
              /\ Returned[i].len > input_min_text_length
              /\ Returned[i].len <= input_max_text_length
              /\ {"input_ids", "query"} \subseteq DOMAIN Returned[i]
              /\ \E j \in 1..Len(corpus) :
                    /\ corpus[j].id = Returned[i].id
                    /\ corpus[j].len = Returned[i].len
        /\ \A j \in WithinLimits :
              \E i \in 1..Len(Returned) : Returned[i].id = corpus[j].id

\* A corpus with dialogues at both limits, inside and outside, was filtered.
C18_Witness ==
    /\ Bound(ns, "dataset")
    /\ Len(Returned) >= 2
    /\ Len(Returned) < Len(corpus)
    /\ \E j \in 1..Len(corpus) : corpus[j].len = input_min_text_length
    /\ \E j \in 1..Len(corpus) : corpus[j].len = input_max_text_length

\* C19: the train and the test split partition the filtered records in their
\* original order: each filtered record is in exactly one of them, once, the
\* train records come before the test records, and the test split is the last
\* fifth of the records, rounded up to whole records.
C19_SplitsPartitionInOrder ==
    Bound(ns, "dataset") =>
        /\ Cardinality(WithinLimits) = Len(Returned)
        /\ \A j \in WithinLimits :
              Cardinality({i \in 1..Len(Returned) :
                              Returned[i].id = corpus[j].id}) = 1
        /\ \A i, k \in 1..Len(Returned) :
              i < k => Returned[i].id < Returned[k].id
        /\ 5 * Len(dataset.test) >= Len(Returned)
        /\ 5 * (Len(dataset.test) - 1) < Len(Returned)

\* Six records were split, four into train and the last two into test.
C19_Witness ==
    /\ Bound(ns, "dataset")
    /\ Len(dataset.train) = 4
    /\ Len(dataset.test) = 2
    /\ dataset.test[2].id = corpus[Len(corpus)].id

\* The cell of the PEFT notebook that ran last.
PeftCellBefore == PeftCells[pc - 1]

\* The arguments of rouge.compute for a model's summaries list: predictions and
\* references have the same length and agree, index by index, on the dialogue.
RougeArgumentsAligned(m) ==
    LET predictions == lists[m]
        references == References(lists["human_baseline"], lists[m])
    IN  /\ Len(references) = Len(predictions)
        /\ \A i \in 1..Len(predictions) : references[i].dlg = predictions[i].dlg

\* C20: after an evaluation loop each of its models' summaries lists has one
\* entry per dialogue, NumDialogues (10) of them, entry i generated from
\* dialogue i, and every rouge.compute call receives predictions and
\* references of equal length whose index i refers to the same dialogue.
C20_SummariesAlignedWithReferences ==
    /\ (nb = "peft" /\ pc > 1 /\ PeftCellBefore.kind \in {"quant_loop", "rouge"}) =>
          \A m \in PeftCellBefore.models :
              /\ Len(lists[m]) = NumDialogues
              /\ \A i \in 1..Len(lists[m]) : lists[m][i].dlg = i
              /\ RougeArgumentsAligned(m)
    /\ \A m \in DOMAIN lists \ {"human_baseline"} : RougeArgumentsAligned(m)

\* The ROUGE cell after the second evaluation loop ran on the three lists.
C20_Witness ==
    /\ nb = "peft"
    /\ pc > 1
    /\ PeftCellBefore.kind = "rouge"
    /\ PeftCellBefore.models = {"original_model", "instruct_model", "peft_model"}
    /\ Len(lists["peft_model"]) = NumDialogues

====
